---- MODULE Spec2Model ----
(***************************************************************************)
(* Strategic issue scoring and aggregation engine of the technical SEO     *)
(* auditor (src/technical_seo_audit_system_v3.py): page classifier,        *)
(* strategic scorer, issue detector, team router, aggregator, and the      *)
(* audit run that drives them.                                             *)
(*                                                                         *)
(* Representation.  Python strings are TLA+ strings; the table Text gives  *)
(* the characters of each string so that lower(), `in`, count(), strip(),  *)
(* startswith() and len() are computed on characters.  Floats are scaled   *)
(* integers: page weights in tenths (5.0 is 50), response times in         *)
(* milliseconds, click-through rates in 1/10000, positions in tenths.      *)
(* Quotients that stay fractional (seo_score, averages) are exact          *)
(* fractions [num, den] in lowest terms.                                   *)
(***************************************************************************)
EXTENDS Integers, Sequences, FiniteSets, TLC

\* ------------------------------------------------------------------------
\* Characters of every string the model uses.
\* ------------------------------------------------------------------------
Text ==
    "http_5xx_error" :> <<"h","t","t","p","_","5","x","x","_","e","r","r","o","r">>
 @@ "HTTP Error" :> <<"H","T","T","P"," ","E","r","r","o","r">>
 @@ "not_indexable" :> <<"n","o","t","_","i","n","d","e","x","a","b","l","e">>
 @@ "core_web_vitals_poor" :> <<"c","o","r","e","_","w","e","b","_","v","i","t","a","l","s","_","p","o","o","r">>
 @@ "Blocked by Robots Meta" :> <<"B","l","o","c","k","e","d"," ","b","y"," ","R","o","b","o","t","s"," ","M","e","t","a">>
 @@ "Missing Title Tag" :> <<"M","i","s","s","i","n","g"," ","T","i","t","l","e"," ","T","a","g">>
 @@ "not_mobile_friendly" :> <<"n","o","t","_","m","o","b","i","l","e","_","f","r","i","e","n","d","l","y">>
 @@ "no_https" :> <<"n","o","_","h","t","t","p","s">>
 @@ "Thin Content" :> <<"T","h","i","n"," ","C","o","n","t","e","n","t">>
 @@ "Duplicate Title Tags" :> <<"D","u","p","l","i","c","a","t","e"," ","T","i","t","l","e"," ","T","a","g","s">>
 @@ "Generic Title Tag" :> <<"G","e","n","e","r","i","c"," ","T","i","t","l","e"," ","T","a","g">>
 @@ "Missing Canonical Tag" :> <<"M","i","s","s","i","n","g"," ","C","a","n","o","n","i","c","a","l"," ","T","a","g">>
 @@ "Invalid Canonical URL" :> <<"I","n","v","a","l","i","d"," ","C","a","n","o","n","i","c","a","l"," ","U","R","L">>
 @@ "Missing Product Schema" :> <<"M","i","s","s","i","n","g"," ","P","r","o","d","u","c","t"," ","S","c","h","e","m","a">>
 @@ "Slow Response Time" :> <<"S","l","o","w"," ","R","e","s","p","o","n","s","e"," ","T","i","m","e">>
 @@ "broken_internal_links" :> <<"b","r","o","k","e","n","_","i","n","t","e","r","n","a","l","_","l","i","n","k","s">>
 @@ "Missing H1 Tag" :> <<"M","i","s","s","i","n","g"," ","H","1"," ","T","a","g">>
 @@ "Duplicate Meta Descriptions" :> <<"D","u","p","l","i","c","a","t","e"," ","M","e","t","a"," ","D","e","s","c","r","i","p","t","i","o","n","s">>
 @@ "Short Title Tag" :> <<"S","h","o","r","t"," ","T","i","t","l","e"," ","T","a","g">>
 @@ "Long Title Tag" :> <<"L","o","n","g"," ","T","i","t","l","e"," ","T","a","g">>
 @@ "Missing Structured Data" :> <<"M","i","s","s","i","n","g"," ","S","t","r","u","c","t","u","r","e","d"," ","D","a","t","a">>
 @@ "Insufficient Internal Links" :> <<"I","n","s","u","f","f","i","c","i","e","n","t"," ","I","n","t","e","r","n","a","l"," ","L","i","n","k","s">>
 @@ "Missing Organization Schema" :> <<"M","i","s","s","i","n","g"," ","O","r","g","a","n","i","z","a","t","i","o","n"," ","S","c","h","e","m","a">>
 @@ "Missing Meta Description" :> <<"M","i","s","s","i","n","g"," ","M","e","t","a"," ","D","e","s","c","r","i","p","t","i","o","n">>
 @@ "Large Page Size" :> <<"L","a","r","g","e"," ","P","a","g","e"," ","S","i","z","e">>
 @@ "Images Without Alt Text" :> <<"I","m","a","g","e","s"," ","W","i","t","h","o","u","t"," ","A","l","t"," ","T","e","x","t">>
 @@ "Short Meta Description" :> <<"S","h","o","r","t"," ","M","e","t","a"," ","D","e","s","c","r","i","p","t","i","o","n">>
 @@ "Long Meta Description" :> <<"L","o","n","g"," ","M","e","t","a"," ","D","e","s","c","r","i","p","t","i","o","n">>
 @@ "Excessive External Links" :> <<"E","x","c","e","s","s","i","v","e"," ","E","x","t","e","r","n","a","l"," ","L","i","n","k","s">>
 @@ "Multiple H1 Tags" :> <<"M","u","l","t","i","p","l","e"," ","H","1"," ","T","a","g","s">>
 @@ "long_title" :> <<"l","o","n","g","_","t","i","t","l","e">>
 @@ "High Impressions Zero Clicks" :> <<"H","i","g","h"," ","I","m","p","r","e","s","s","i","o","n","s"," ","Z","e","r","o"," ","C","l","i","c","k","s">>
 @@ "High Traffic Page with Technical Issues" :> <<"H","i","g","h"," ","T","r","a","f","f","i","c"," ","P","a","g","e"," ","w","i","t","h"," ","T","e","c","h","n","i","c","a","l"," ","I","s","s","u","e","s">>
 @@ "High Impressions Low CTR" :> <<"H","i","g","h"," ","I","m","p","r","e","s","s","i","o","n","s"," ","L","o","w"," ","C","T","R">>
 @@ "High Impressions Poor Position" :> <<"H","i","g","h"," ","I","m","p","r","e","s","s","i","o","n","s"," ","P","o","o","r"," ","P","o","s","i","t","i","o","n">>
 @@ "High Value Page Opportunity" :> <<"H","i","g","h"," ","V","a","l","u","e"," ","P","a","g","e"," ","O","p","p","o","r","t","u","n","i","t","y">>
 @@ "missing_canonical" :> <<"m","i","s","s","i","n","g","_","c","a","n","o","n","i","c","a","l">>
 @@ "crawlability" :> <<"c","r","a","w","l","a","b","i","l","i","t","y">>
 @@ "https_issues" :> <<"h","t","t","p","s","_","i","s","s","u","e","s">>
 @@ "server_errors" :> <<"s","e","r","v","e","r","_","e","r","r","o","r","s">>
 @@ "redirect_chains" :> <<"r","e","d","i","r","e","c","t","_","c","h","a","i","n","s">>
 @@ "broken_links" :> <<"b","r","o","k","e","n","_","l","i","n","k","s">>
 @@ "duplicate_content" :> <<"d","u","p","l","i","c","a","t","e","_","c","o","n","t","e","n","t">>
 @@ "keyword_optimization" :> <<"k","e","y","w","o","r","d","_","o","p","t","i","m","i","z","a","t","i","o","n">>
 @@ "thin_content" :> <<"t","h","i","n","_","c","o","n","t","e","n","t">>
 @@ "missing_schema" :> <<"m","i","s","s","i","n","g","_","s","c","h","e","m","a">>
 @@ "poor_ux" :> <<"p","o","o","r","_","u","x">>
 @@ "mobile_usability" :> <<"m","o","b","i","l","e","_","u","s","a","b","i","l","i","t","y">>
 @@ "touch_targets" :> <<"t","o","u","c","h","_","t","a","r","g","e","t","s">>
 @@ "viewport_issues" :> <<"v","i","e","w","p","o","r","t","_","i","s","s","u","e","s">>
 @@ "image_optimization" :> <<"i","m","a","g","e","_","o","p","t","i","m","i","z","a","t","i","o","n">>
 @@ "layout_issues" :> <<"l","a","y","o","u","t","_","i","s","s","u","e","s">>
 @@ "Custom Check" :> <<"C","u","s","t","o","m"," ","C","h","e","c","k">>
 @@ "Server Errors Found" :> <<"S","e","r","v","e","r"," ","E","r","r","o","r","s"," ","F","o","u","n","d">>
 @@ "Thin Content Warning" :> <<"T","h","i","n"," ","C","o","n","t","e","n","t"," ","W","a","r","n","i","n","g">>
 @@ "Poor UX on mobile" :> <<"P","o","o","r"," ","U","X"," ","o","n"," ","m","o","b","i","l","e">>
 @@ "/" :> <<"/">>
 @@ "/home" :> <<"/","h","o","m","e">>
 @@ "/index" :> <<"/","i","n","d","e","x">>
 @@ "/product" :> <<"/","p","r","o","d","u","c","t">>
 @@ "/p/" :> <<"/","p","/">>
 @@ "photo-blankets" :> <<"p","h","o","t","o","-","b","l","a","n","k","e","t","s">>
 @@ "photo-books" :> <<"p","h","o","t","o","-","b","o","o","k","s">>
 @@ "photo-mugs" :> <<"p","h","o","t","o","-","m","u","g","s">>
 @@ "/category" :> <<"/","c","a","t","e","g","o","r","y">>
 @@ "/c/" :> <<"/","c","/">>
 @@ "/canvas-prints" :> <<"/","c","a","n","v","a","s","-","p","r","i","n","t","s">>
 @@ "/photo-calendars" :> <<"/","p","h","o","t","o","-","c","a","l","e","n","d","a","r","s">>
 @@ "/checkout" :> <<"/","c","h","e","c","k","o","u","t">>
 @@ "/cart" :> <<"/","c","a","r","t">>
 @@ "/basket" :> <<"/","b","a","s","k","e","t">>
 @@ "/about" :> <<"/","a","b","o","u","t">>
 @@ "/company" :> <<"/","c","o","m","p","a","n","y">>
 @@ "/contact" :> <<"/","c","o","n","t","a","c","t">>
 @@ "/support" :> <<"/","s","u","p","p","o","r","t">>
 @@ "/blog" :> <<"/","b","l","o","g">>
 @@ "/news" :> <<"/","n","e","w","s">>
 @@ "untitled" :> <<"u","n","t","i","t","l","e","d">>
 @@ "new page" :> <<"n","e","w"," ","p","a","g","e">>
 @@ "home page" :> <<"h","o","m","e"," ","p","a","g","e">>
 @@ "welcome" :> <<"w","e","l","c","o","m","e">>
 @@ "default" :> <<"d","e","f","a","u","l","t">>
 @@ "page" :> <<"p","a","g","e">>
 @@ "noindex" :> <<"n","o","i","n","d","e","x">>
 @@ "nofollow" :> <<"n","o","f","o","l","l","o","w">>
 @@ "http" :> <<"h","t","t","p">>
 @@ " " :> <<" ">>
 @@ "https://x.com/" :> <<"h","t","t","p","s",":","/","/","x",".","c","o","m","/">>
 @@ "https://x.com/product" :> <<"h","t","t","p","s",":","/","/","x",".","c","o","m","/","p","r","o","d","u","c","t">>
 @@ "https://x.com/p/1" :> <<"h","t","t","p","s",":","/","/","x",".","c","o","m","/","p","/","1">>
 @@ "https://x.com/c/a" :> <<"h","t","t","p","s",":","/","/","x",".","c","o","m","/","c","/","a">>
 @@ "https://x.com/cart/" :> <<"h","t","t","p","s",":","/","/","x",".","c","o","m","/","c","a","r","t","/">>
 @@ "https://x.com/about/us" :> <<"h","t","t","p","s",":","/","/","x",".","c","o","m","/","a","b","o","u","t","/","u","s">>
 @@ "https://x.com/support/" :> <<"h","t","t","p","s",":","/","/","x",".","c","o","m","/","s","u","p","p","o","r","t","/">>
 @@ "https://x.com/blog/" :> <<"h","t","t","p","s",":","/","/","x",".","c","o","m","/","b","l","o","g","/">>
 @@ "https://x.com/pricing/" :> <<"h","t","t","p","s",":","/","/","x",".","c","o","m","/","p","r","i","c","i","n","g","/">>
 @@ "https://x.com/a/b" :> <<"h","t","t","p","s",":","/","/","x",".","c","o","m","/","a","/","b">>
 @@ "https://blog.com/a/b" :> <<"h","t","t","p","s",":","/","/","b","l","o","g",".","c","o","m","/","a","/","b">>
 @@ "HTTPS://X.COM/NEWS/" :> <<"H","T","T","P","S",":","/","/","X",".","C","O","M","/","N","E","W","S","/">>
 @@ "http://y.org/blog/" :> <<"h","t","t","p",":","/","/","y",".","o","r","g","/","b","l","o","g","/">>
 @@ "x.com" :> <<"x",".","c","o","m">>
 @@ "https://x.com/blog/p/" :> <<"h","t","t","p","s",":","/","/","x",".","c","o","m","/","b","l","o","g","/","p","/">>
 @@ "https://x.com/news/cart/about" :> <<"h","t","t","p","s",":","/","/","x",".","c","o","m","/","n","e","w","s","/","c","a","r","t","/","a","b","o","u","t">>
 @@ "https://x.com/cart/pay" :> <<"h","t","t","p","s",":","/","/","x",".","c","o","m","/","c","a","r","t","/","p","a","y">>
 @@ "https://x.com/About/Team/" :> <<"h","t","t","p","s",":","/","/","x",".","c","o","m","/","A","b","o","u","t","/","T","e","a","m","/">>
 @@ "https://blog.com/" :> <<"h","t","t","p","s",":","/","/","b","l","o","g",".","c","o","m","/">>
 @@ "https://blog.com/p/1" :> <<"h","t","t","p","s",":","/","/","b","l","o","g",".","c","o","m","/","p","/","1">>
 @@ "https://blog.com/blog/" :> <<"h","t","t","p","s",":","/","/","b","l","o","g",".","c","o","m","/","b","l","o","g","/">>
 @@ "https://blog.com/cart/pay" :> <<"h","t","t","p","s",":","/","/","b","l","o","g",".","c","o","m","/","c","a","r","t","/","p","a","y">>
 @@ "https://blog.com/About/Team/" :> <<"h","t","t","p","s",":","/","/","b","l","o","g",".","c","o","m","/","A","b","o","u","t","/","T","e","a","m","/">>
 @@ "https://photo-books.com/" :> <<"h","t","t","p","s",":","/","/","p","h","o","t","o","-","b","o","o","k","s",".","c","o","m","/">>
 @@ "https://photo-books.com/a/b" :> <<"h","t","t","p","s",":","/","/","p","h","o","t","o","-","b","o","o","k","s",".","c","o","m","/","a","/","b">>
 @@ "https://photo-books.com/p/1" :> <<"h","t","t","p","s",":","/","/","p","h","o","t","o","-","b","o","o","k","s",".","c","o","m","/","p","/","1">>
 @@ "https://photo-books.com/blog/" :> <<"h","t","t","p","s",":","/","/","p","h","o","t","o","-","b","o","o","k","s",".","c","o","m","/","b","l","o","g","/">>
 @@ "https://photo-books.com/cart/pay" :> <<"h","t","t","p","s",":","/","/","p","h","o","t","o","-","b","o","o","k","s",".","c","o","m","/","c","a","r","t","/","p","a","y">>
 @@ "https://photo-books.com/About/Team/" :> <<"h","t","t","p","s",":","/","/","p","h","o","t","o","-","b","o","o","k","s",".","c","o","m","/","A","b","o","u","t","/","T","e","a","m","/">>
 @@ "http://x.com/" :> <<"h","t","t","p",":","/","/","x",".","c","o","m","/">>
 @@ "http://x.com/a/b" :> <<"h","t","t","p",":","/","/","x",".","c","o","m","/","a","/","b">>
 @@ "http://x.com/p/1" :> <<"h","t","t","p",":","/","/","x",".","c","o","m","/","p","/","1">>
 @@ "http://x.com/blog/" :> <<"h","t","t","p",":","/","/","x",".","c","o","m","/","b","l","o","g","/">>
 @@ "http://x.com/cart/pay" :> <<"h","t","t","p",":","/","/","x",".","c","o","m","/","c","a","r","t","/","p","a","y">>
 @@ "http://x.com/About/Team/" :> <<"h","t","t","p",":","/","/","x",".","c","o","m","/","A","b","o","u","t","/","T","e","a","m","/">>
 @@ "http://blog.com/" :> <<"h","t","t","p",":","/","/","b","l","o","g",".","c","o","m","/">>
 @@ "http://blog.com/a/b" :> <<"h","t","t","p",":","/","/","b","l","o","g",".","c","o","m","/","a","/","b">>
 @@ "http://blog.com/p/1" :> <<"h","t","t","p",":","/","/","b","l","o","g",".","c","o","m","/","p","/","1">>
 @@ "http://blog.com/blog/" :> <<"h","t","t","p",":","/","/","b","l","o","g",".","c","o","m","/","b","l","o","g","/">>
 @@ "http://blog.com/cart/pay" :> <<"h","t","t","p",":","/","/","b","l","o","g",".","c","o","m","/","c","a","r","t","/","p","a","y">>
 @@ "http://blog.com/About/Team/" :> <<"h","t","t","p",":","/","/","b","l","o","g",".","c","o","m","/","A","b","o","u","t","/","T","e","a","m","/">>
 @@ "http://photo-books.com/" :> <<"h","t","t","p",":","/","/","p","h","o","t","o","-","b","o","o","k","s",".","c","o","m","/">>
 @@ "http://photo-books.com/a/b" :> <<"h","t","t","p",":","/","/","p","h","o","t","o","-","b","o","o","k","s",".","c","o","m","/","a","/","b">>
 @@ "http://photo-books.com/p/1" :> <<"h","t","t","p",":","/","/","p","h","o","t","o","-","b","o","o","k","s",".","c","o","m","/","p","/","1">>
 @@ "http://photo-books.com/blog/" :> <<"h","t","t","p",":","/","/","p","h","o","t","o","-","b","o","o","k","s",".","c","o","m","/","b","l","o","g","/">>
 @@ "http://photo-books.com/cart/pay" :> <<"h","t","t","p",":","/","/","p","h","o","t","o","-","b","o","o","k","s",".","c","o","m","/","c","a","r","t","/","p","a","y">>
 @@ "http://photo-books.com/About/Team/" :> <<"h","t","t","p",":","/","/","p","h","o","t","o","-","b","o","o","k","s",".","c","o","m","/","A","b","o","u","t","/","T","e","a","m","/">>
 @@ "x.com/" :> <<"x",".","c","o","m","/">>
 @@ "x.com/a/b" :> <<"x",".","c","o","m","/","a","/","b">>
 @@ "x.com/p/1" :> <<"x",".","c","o","m","/","p","/","1">>
 @@ "x.com/blog/" :> <<"x",".","c","o","m","/","b","l","o","g","/">>
 @@ "x.com/cart/pay" :> <<"x",".","c","o","m","/","c","a","r","t","/","p","a","y">>
 @@ "x.com/About/Team/" :> <<"x",".","c","o","m","/","A","b","o","u","t","/","T","e","a","m","/">>
 @@ "blog.com/" :> <<"b","l","o","g",".","c","o","m","/">>
 @@ "blog.com/a/b" :> <<"b","l","o","g",".","c","o","m","/","a","/","b">>
 @@ "blog.com/p/1" :> <<"b","l","o","g",".","c","o","m","/","p","/","1">>
 @@ "blog.com/blog/" :> <<"b","l","o","g",".","c","o","m","/","b","l","o","g","/">>
 @@ "blog.com/cart/pay" :> <<"b","l","o","g",".","c","o","m","/","c","a","r","t","/","p","a","y">>
 @@ "blog.com/About/Team/" :> <<"b","l","o","g",".","c","o","m","/","A","b","o","u","t","/","T","e","a","m","/">>
 @@ "photo-books.com/" :> <<"p","h","o","t","o","-","b","o","o","k","s",".","c","o","m","/">>
 @@ "photo-books.com/a/b" :> <<"p","h","o","t","o","-","b","o","o","k","s",".","c","o","m","/","a","/","b">>
 @@ "photo-books.com/p/1" :> <<"p","h","o","t","o","-","b","o","o","k","s",".","c","o","m","/","p","/","1">>
 @@ "photo-books.com/blog/" :> <<"p","h","o","t","o","-","b","o","o","k","s",".","c","o","m","/","b","l","o","g","/">>
 @@ "photo-books.com/cart/pay" :> <<"p","h","o","t","o","-","b","o","o","k","s",".","c","o","m","/","c","a","r","t","/","p","a","y">>
 @@ "photo-books.com/About/Team/" :> <<"p","h","o","t","o","-","b","o","o","k","s",".","c","o","m","/","A","b","o","u","t","/","T","e","a","m","/">>
 @@ "" :> <<>>
 @@ "Home" :> <<"H","o","m","e">>
 @@ "Acme photo gifts and prints online!!!!!!" :> <<"A","c","m","e"," ","p","h","o","t","o"," ","g","i","f","t","s"," ","a","n","d"," ","p","r","i","n","t","s"," ","o","n","l","i","n","e","!","!","!","!","!","!">>
 @@ "Acme canvas prints in every size!!!!!!!!!" :> <<"A","c","m","e"," ","c","a","n","v","a","s"," ","p","r","i","n","t","s"," ","i","n"," ","e","v","e","r","y"," ","s","i","z","e","!","!","!","!","!","!","!","!","!">>
 @@ "Acme journal: ideas for photo books!!!!!!!" :> <<"A","c","m","e"," ","j","o","u","r","n","a","l",":"," ","i","d","e","a","s"," ","f","o","r"," ","p","h","o","t","o"," ","b","o","o","k","s","!","!","!","!","!","!","!">>
 @@ "Acme gifts!" :> <<"A","c","m","e"," ","g","i","f","t","s","!">>
 @@ "Acme gifts" :> <<"A","c","m","e"," ","g","i","f","t","s">>
 @@ "Home Page" :> <<"H","o","m","e"," ","P","a","g","e">>
 @@ "Acme long title!!!!!!!!!!!!!!!!!!!!!!!!!!!!!!!!!!!!!!!!!!!!!!!!!!!!!!!!" :> <<"A","c","m","e"," ","l","o","n","g"," ","t","i","t","l","e","!","!","!","!","!","!","!","!","!","!","!","!","!","!","!","!","!","!","!","!","!","!","!","!","!","!","!","!","!","!","!","!","!","!","!","!","!","!","!","!","!","!","!","!","!","!","!","!","!","!","!","!","!","!","!","!">>
 @@ "Order personalised photo gifts........................................................................................................................" :> <<"O","r","d","e","r"," ","p","e","r","s","o","n","a","l","i","s","e","d"," ","p","h","o","t","o"," ","g","i","f","t","s",".",".",".",".",".",".",".",".",".",".",".",".",".",".",".",".",".",".",".",".",".",".",".",".",".",".",".",".",".",".",".",".",".",".",".",".",".",".",".",".",".",".",".",".",".",".",".",".",".",".",".",".",".",".",".",".",".",".",".",".",".",".",".",".",".",".",".",".",".",".",".",".",".",".",".",".",".",".",".",".",".",".",".",".",".",".",".",".",".",".",".",".",".",".",".",".",".",".",".",".",".",".",".",".",".",".",".",".",".",".",".",".",".",".",".",".",".",".",".",".">>
 @@ "Browse canvas prints by size..........................................................................................................................." :> <<"B","r","o","w","s","e"," ","c","a","n","v","a","s"," ","p","r","i","n","t","s"," ","b","y"," ","s","i","z","e",".",".",".",".",".",".",".",".",".",".",".",".",".",".",".",".",".",".",".",".",".",".",".",".",".",".",".",".",".",".",".",".",".",".",".",".",".",".",".",".",".",".",".",".",".",".",".",".",".",".",".",".",".",".",".",".",".",".",".",".",".",".",".",".",".",".",".",".",".",".",".",".",".",".",".",".",".",".",".",".",".",".",".",".",".",".",".",".",".",".",".",".",".",".",".",".",".",".",".",".",".",".",".",".",".",".",".",".",".",".",".",".",".",".",".",".",".",".",".",".",".",".",".">>
 @@ "Read the Acme journal..................................................................................................................................." :> <<"R","e","a","d"," ","t","h","e"," ","A","c","m","e"," ","j","o","u","r","n","a","l",".",".",".",".",".",".",".",".",".",".",".",".",".",".",".",".",".",".",".",".",".",".",".",".",".",".",".",".",".",".",".",".",".",".",".",".",".",".",".",".",".",".",".",".",".",".",".",".",".",".",".",".",".",".",".",".",".",".",".",".",".",".",".",".",".",".",".",".",".",".",".",".",".",".",".",".",".",".",".",".",".",".",".",".",".",".",".",".",".",".",".",".",".",".",".",".",".",".",".",".",".",".",".",".",".",".",".",".",".",".",".",".",".",".",".",".",".",".",".",".",".",".",".",".",".",".",".",".",".",".",".">>
 @@ "Gifts for everyone..." :> <<"G","i","f","t","s"," ","f","o","r"," ","e","v","e","r","y","o","n","e",".",".",".">>
 @@ "Gifts for everyone.." :> <<"G","i","f","t","s"," ","f","o","r"," ","e","v","e","r","y","o","n","e",".",".">>
 @@ "Too long..................................................................................................................................................................." :> <<"T","o","o"," ","l","o","n","g",".",".",".",".",".",".",".",".",".",".",".",".",".",".",".",".",".",".",".",".",".",".",".",".",".",".",".",".",".",".",".",".",".",".",".",".",".",".",".",".",".",".",".",".",".",".",".",".",".",".",".",".",".",".",".",".",".",".",".",".",".",".",".",".",".",".",".",".",".",".",".",".",".",".",".",".",".",".",".",".",".",".",".",".",".",".",".",".",".",".",".",".",".",".",".",".",".",".",".",".",".",".",".",".",".",".",".",".",".",".",".",".",".",".",".",".",".",".",".",".",".",".",".",".",".",".",".",".",".",".",".",".",".",".",".",".",".",".",".",".",".",".",".",".",".",".",".",".",".",".",".",".",".",".",".",".",".",".",".",".",".",".",".">>
 @@ "://" :> <<":","/","/">>
 @@ "homepage" :> <<"h","o","m","e","p","a","g","e">>
 @@ "product" :> <<"p","r","o","d","u","c","t">>
 @@ "category" :> <<"c","a","t","e","g","o","r","y">>
 @@ "checkout" :> <<"c","h","e","c","k","o","u","t">>
 @@ "about" :> <<"a","b","o","u","t">>
 @@ "contact" :> <<"c","o","n","t","a","c","t">>
 @@ "blog" :> <<"b","l","o","g">>
 @@ "other" :> <<"o","t","h","e","r">>
 @@ "sc-domain:x.com" :> <<"s","c","-","d","o","m","a","i","n",":","x",".","c","o","m">>
 @@ "Welcome to Acme" :> <<"W","e","l","c","o","m","e"," ","t","o"," ","A","c","m","e">>
 @@ "Second heading" :> <<"S","e","c","o","n","d"," ","h","e","a","d","i","n","g">>
 @@ "noindex, nofollow" :> <<"n","o","i","n","d","e","x",","," ","n","o","f","o","l","l","o","w">>
 @@ "NOINDEX,NOFOLLOW" :> <<"N","O","I","N","D","E","X",",","N","O","F","O","L","L","O","W">>
 @@ "/index.html" :> <<"/","i","n","d","e","x",".","h","t","m","l">>
 @@ "https://x.com/other" :> <<"h","t","t","p","s",":","/","/","x",".","c","o","m","/","o","t","h","e","r">>

\* ------------------------------------------------------------------------
\* Python string operations, on character tuples.
\* ------------------------------------------------------------------------
LowerOf ==
    "A" :> "a" @@ "B" :> "b" @@ "C" :> "c" @@ "D" :> "d" @@ "E" :> "e" @@ "F" :> "f"
 @@ "G" :> "g" @@ "H" :> "h" @@ "I" :> "i" @@ "J" :> "j" @@ "K" :> "k" @@ "L" :> "l"
 @@ "M" :> "m" @@ "N" :> "n" @@ "O" :> "o" @@ "P" :> "p" @@ "Q" :> "q" @@ "R" :> "r"
 @@ "S" :> "s" @@ "T" :> "t" @@ "U" :> "u" @@ "V" :> "v" @@ "W" :> "w" @@ "X" :> "x"
 @@ "Y" :> "y" @@ "Z" :> "z"

\* str.lower()
Lower(s) ==
    [i \in 1..Len(s) |-> IF s[i] \in DOMAIN LowerOf THEN LowerOf[s[i]] ELSE s[i]]

\* p in s
Contains(s, p) ==
    \E i \in 0..(Len(s) - Len(p)) : SubSeq(s, i + 1, i + Len(p)) = p

\* s.count(c) for a one-character c
Count(s, c) ==
    Cardinality({i \in 1..Len(s) : s[i] = c})

\* s.startswith(p)
StartsWith(s, p) ==
    Len(s) >= Len(p) /\ SubSeq(s, 1, Len(p)) = p

\* s.replace(a, b) for one-character a and b
Replace(s, a, b) ==
    [i \in 1..Len(s) |-> IF s[i] = a THEN b ELSE s[i]]

Whitespace == {" ", "\t", "\n", "\r"}

\* Index of the first character of s at or after i that is not whitespace (Len(s) + 1 if none)
RECURSIVE FirstKept(_, _)
FirstKept(s, i) ==
    IF i <= Len(s) /\ s[i] \in Whitespace THEN FirstKept(s, i + 1) ELSE i

\* Index of the last character of s at or before i that is not whitespace (0 if none)
RECURSIVE LastKept(_, _)
LastKept(s, i) ==
    IF i >= 1 /\ s[i] \in Whitespace THEN LastKept(s, i - 1) ELSE i

\* s.strip(): leading and trailing whitespace removed
Strip(s) ==
    SubSeq(s, FirstKept(s, 1), LastKept(s, Len(s)))

RECURSIVE GCD(_, _)
GCD(a, b) == IF b = 0 THEN a ELSE GCD(b, a % b)

\* The quotient num / den (num >= 0, den > 0) of a float division, in lowest terms
Frac(num, den) == [num |-> num \div GCD(num, den), den |-> den \div GCD(num, den)]

Min(a, b) == IF a <= b THEN a ELSE b
Max(a, b) == IF a >= b THEN a ELSE b

\* ------------------------------------------------------------------------
\* Sample URLs
\* ------------------------------------------------------------------------
UrlHome == "https://x.com/"
UrlProduct == "https://x.com/p/1"
UrlBlog == "https://x.com/blog/"
UrlCart == "https://x.com/cart/"

\* URLs an audit may be asked to cover
AuditUrls == {UrlHome, UrlProduct, UrlBlog}

\* URLs given to the scorer and the classifier
UrlInputs ==
    {"https://x.com/", "https://x.com/product", "https://x.com/p/1", "https://x.com/c/a",
     "https://x.com/cart/", "https://x.com/about/us", "https://x.com/support/",
     "https://x.com/blog/", "https://x.com/pricing/", "https://x.com/a/b",
     "https://blog.com/a/b", "HTTPS://X.COM/NEWS/", "http://y.org/blog/", "x.com",
     "https://x.com/blog/p/", "https://x.com/news/cart/about", "https://x.com/cart/pay",
     "https://x.com/About/Team/", "https://blog.com/", "https://blog.com/p/1",
     "https://blog.com/blog/", "https://blog.com/cart/pay", "https://blog.com/About/Team/",
     "https://photo-books.com/", "https://photo-books.com/a/b", "https://photo-books.com/p/1",
     "https://photo-books.com/blog/", "https://photo-books.com/cart/pay",
     "https://photo-books.com/About/Team/", "http://x.com/", "http://x.com/a/b",
     "http://x.com/p/1", "http://x.com/blog/", "http://x.com/cart/pay",
     "http://x.com/About/Team/", "http://blog.com/", "http://blog.com/a/b",
     "http://blog.com/p/1", "http://blog.com/blog/", "http://blog.com/cart/pay",
     "http://blog.com/About/Team/", "http://photo-books.com/", "http://photo-books.com/a/b",
     "http://photo-books.com/p/1", "http://photo-books.com/blog/",
     "http://photo-books.com/cart/pay", "http://photo-books.com/About/Team/", "x.com/",
     "x.com/a/b", "x.com/p/1", "x.com/blog/", "x.com/cart/pay", "x.com/About/Team/",
     "blog.com/", "blog.com/a/b", "blog.com/p/1", "blog.com/blog/", "blog.com/cart/pay",
     "blog.com/About/Team/", "photo-books.com/", "photo-books.com/a/b", "photo-books.com/p/1",
     "photo-books.com/blog/", "photo-books.com/cart/pay", "photo-books.com/About/Team/" }

\* ------------------------------------------------------------------------
\* StrategicSEOScorer
\* ------------------------------------------------------------------------
issue_severity ==
    "http_5xx_error" :> 100
 @@ "HTTP Error" :> 90
 @@ "not_indexable" :> 100
 @@ "core_web_vitals_poor" :> 95
 @@ "Blocked by Robots Meta" :> 100
 @@ "Missing Title Tag" :> 95
 @@ "not_mobile_friendly" :> 90
 @@ "no_https" :> 85
 @@ "Thin Content" :> 85
 @@ "Duplicate Title Tags" :> 80
 @@ "Generic Title Tag" :> 75
 @@ "Missing Canonical Tag" :> 75
 @@ "Invalid Canonical URL" :> 75
 @@ "Missing Product Schema" :> 70
 @@ "Slow Response Time" :> 80
 @@ "broken_internal_links" :> 75
 @@ "Missing H1 Tag" :> 65
 @@ "Duplicate Meta Descriptions" :> 50
 @@ "Short Title Tag" :> 55
 @@ "Long Title Tag" :> 50
 @@ "Missing Structured Data" :> 50
 @@ "Insufficient Internal Links" :> 45
 @@ "Missing Organization Schema" :> 45
 @@ "Missing Meta Description" :> 45
 @@ "Large Page Size" :> 55
 @@ "Images Without Alt Text" :> 40
 @@ "Short Meta Description" :> 25
 @@ "Long Meta Description" :> 25
 @@ "Excessive External Links" :> 30
 @@ "Multiple H1 Tags" :> 30
 @@ "long_title" :> 25
 @@ "High Impressions Zero Clicks" :> 95
 @@ "High Traffic Page with Technical Issues" :> 90
 @@ "High Impressions Low CTR" :> 70
 @@ "High Impressions Poor Position" :> 60
 @@ "High Value Page Opportunity" :> 50

\* Page importance weights, in tenths.
page_weights ==
    "homepage" :> 50
 @@ "product" :> 45
 @@ "category" :> 40
 @@ "checkout" :> 48
 @@ "pricing" :> 45
 @@ "contact" :> 30
 @@ "about" :> 25
 @@ "blog" :> 20
 @@ "other" :> 20

\* any(pattern in text for pattern in patterns)
AnyPatternIn(patterns, text) ==
    \E p \in patterns : Contains(text, Text[p])

\* Variant: the blog rule evaluated before the product rule
classify_page_type_blog_first(url) ==
    LET url_lower == Lower(Text[url])
    IN IF AnyPatternIn({"/", "/home", "/index"}, url_lower) /\ Count(url_lower, "/") <= 3
         THEN "homepage"
       ELSE IF AnyPatternIn({"/blog", "/news"}, url_lower)
         THEN "blog"
       ELSE IF AnyPatternIn({"/product", "/p/", "photo-blankets", "photo-books", "photo-mugs"}, url_lower)
         THEN "product"
       ELSE IF AnyPatternIn({"/category", "/c/", "/canvas-prints", "/photo-calendars"}, url_lower)
         THEN "category"
       ELSE IF AnyPatternIn({"/checkout", "/cart", "/basket"}, url_lower)
         THEN "checkout"
       ELSE IF AnyPatternIn({"/about", "/company"}, url_lower)
         THEN "about"
       ELSE IF AnyPatternIn({"/contact", "/support"}, url_lower)
         THEN "contact"
       ELSE "other"

\* Variant: a rule for pricing pages, as page_weights has an entry for them
classify_page_type_with_pricing(url) ==
    LET url_lower == Lower(Text[url])
    IN IF AnyPatternIn({"/", "/home", "/index"}, url_lower) /\ Count(url_lower, "/") <= 3
         THEN "homepage"
       ELSE IF AnyPatternIn({"/product", "/p/", "photo-blankets", "photo-books", "photo-mugs"}, url_lower)
         THEN "product"
       ELSE IF AnyPatternIn({"/category", "/c/", "/canvas-prints", "/photo-calendars"}, url_lower)
         THEN "category"
       ELSE IF AnyPatternIn({"/checkout", "/cart", "/basket"}, url_lower)
         THEN "checkout"
       ELSE IF Contains(url_lower, <<"/", "p", "r", "i", "c", "i", "n", "g">>)
         THEN "pricing"
       ELSE IF AnyPatternIn({"/about", "/company"}, url_lower)
         THEN "about"
       ELSE IF AnyPatternIn({"/contact", "/support"}, url_lower)
         THEN "contact"
       ELSE IF AnyPatternIn({"/blog", "/news"}, url_lower)
         THEN "blog"
       ELSE "other"

classify_page_type(url) ==
    LET url_lower == Lower(Text[url])
    IN IF AnyPatternIn({"/", "/home", "/index"}, url_lower) /\ Count(url_lower, "/") <= 3
         THEN "homepage"
       ELSE IF AnyPatternIn({"/product", "/p/", "photo-blankets", "photo-books", "photo-mugs"}, url_lower)
         THEN "product"
       ELSE IF AnyPatternIn({"/category", "/c/", "/canvas-prints", "/photo-calendars"}, url_lower)
         THEN "category"
       ELSE IF AnyPatternIn({"/checkout", "/cart", "/basket"}, url_lower)
         THEN "checkout"
       ELSE IF AnyPatternIn({"/about", "/company"}, url_lower)
         THEN "about"
       ELSE IF AnyPatternIn({"/contact", "/support"}, url_lower)
         THEN "contact"
       ELSE IF AnyPatternIn({"/blog", "/news"}, url_lower)
         THEN "blog"
       ELSE "other"

\* classify_page_type, evaluated once per URL of the model
page_type_of == [url \in UrlInputs |-> classify_page_type(url)]

\* Variant: the default base taken whatever the table holds
base_impact_default(issue_type) == 50

\* self.issue_severity.get(issue_type, 50)
base_impact_of(issue_type) ==
    IF issue_type \in DOMAIN issue_severity THEN issue_severity[issue_type] ELSE 50

\* Variant: every page type at the default weight 2.0
page_weight_of_default_only(page_type) == 20

\* self.page_weights.get(page_type, 2.0), in tenths
page_weight_of(page_type) ==
    IF page_type \in DOMAIN page_weights THEN page_weights[page_type] ELSE 20

\* int(x) of the non-negative quotient num / den: truncation
IntOf(num, den) == num \div den

\* round(x) of the non-negative quotient num / den (ties to even, as Python 3 rounds)
RoundOf(num, den) ==
    LET q == num \div den
        r == num % den
    IN IF 2 * r > den \/ (2 * r = den /\ q % 2 = 1) THEN q + 1 ELSE q

\* Variant: the score rounded to the nearest integer instead of truncated
strategic_impact_rounded(base_impact, page_weight) ==
    Min(100, RoundOf(base_impact * page_weight, 25))

\* Variant: the score without the cap at 100
strategic_impact_uncapped(base_impact, page_weight) ==
    IntOf(base_impact * page_weight, 25)

\* Variant: the base divided by the scaled weight instead of multiplied
strategic_impact_divided(base_impact, page_weight) ==
    Min(100, IntOf(base_impact * 25, page_weight))

\* strategic_impact = base_impact * (page_weight / 2.5); min(100, int(strategic_impact))
strategic_impact_of(base_impact, page_weight) ==
    Min(100, IntOf(base_impact * page_weight, 25))

get_strategic_impact_score(issue_type, url) ==
    strategic_impact_of(base_impact_of(issue_type),
                        page_weight_of(page_type_of[url]))


\* ------------------------------------------------------------------------
\* Records
\*   CrawlMetrics (asdict): url, status_code, response_time (ms), title,
\*     meta_description, h1_tags, canonical_url (<<>> is None, <<c>> is c),
\*     robots_meta, internal_links, external_links, images_without_alt,
\*     page_size.
\*   TechnicalSEOIssue: url, issue_type, severity, category, status,
\*     impact_score.  description, recommendation and date_detected are
\*     formatted texts and a clock reading that no decision reads; they are
\*     left out of the record.
\*   Schema result: url, error, json_ld_count, schema_types_found.
\*   GSCMetrics: url and page_experience_signals (impressions, clicks,
\*     ctr in 1/10000, position in tenths, domain).
\* ------------------------------------------------------------------------
TechnicalSEOIssue(url, issue_type, severity, category) ==
    [url |-> url,
     issue_type |-> issue_type,
     severity |-> severity,
     category |-> category,
     status |-> "New",
     impact_score |-> get_strategic_impact_score(issue_type, url)]

\* issues.append(...) under a condition
When(cond, issue) == IF cond THEN <<issue>> ELSE <<>>

RECURSIVE SumLen(_)
SumLen(strings) ==
    IF strings = <<>> THEN 0 ELSE Len(Text[Head(strings)]) + SumLen(Tail(strings))

\* len(' '.join(strings))
JoinedLen(strings) ==
    IF strings = <<>> THEN 0 ELSE SumLen(strings) + (Len(strings) - 1)

generic_patterns == {"untitled", "new page", "home page", "welcome", "default", "page"}

\* Variant: Critical only above 500
http_error_severity_above_500(status_code) ==
    IF status_code > 500 THEN "Critical" ELSE "High"

\* severity='Critical' if crawl_data['status_code'] >= 500 else 'High'
http_error_severity(status_code) ==
    IF status_code >= 500 THEN "Critical" ELSE "High"

\* Variant: the description is looked at only when the title is there
missing_content_rules_chained(crawl_data) ==
    IF crawl_data.title = ""
    THEN <<TechnicalSEOIssue(crawl_data.url, "Missing Title Tag", "High", "Content")>>
    ELSE When(crawl_data.meta_description = "",
              TechnicalSEOIssue(crawl_data.url, "Missing Meta Description", "Medium", "Content"))

\* if not crawl_data['title']: ...  if not crawl_data['meta_description']: ...
missing_content_rules(crawl_data) ==
       When(crawl_data.title = "",
            TechnicalSEOIssue(crawl_data.url, "Missing Title Tag", "High", "Content"))
    \o When(crawl_data.meta_description = "",
            TechnicalSEOIssue(crawl_data.url, "Missing Meta Description", "Medium", "Content"))

\* The per-page rules of _analyze_issues, in the order the code appends.
page_rules(crawl_data) ==
    LET url == crawl_data.url
        title == Text[crawl_data.title]
        meta == Text[crawl_data.meta_description]
        h1_tags == crawl_data.h1_tags
        title_len == Len(title)
        meta_len == Len(meta)
        content_length == Len(title) + Len(meta) + JoinedLen(h1_tags)
        has_canonical == crawl_data.canonical_url # <<>> /\ crawl_data.canonical_url[1] # ""
        robots_content == Lower(Text[crawl_data.robots_meta])
    IN  When(crawl_data.status_code >= 400,
             TechnicalSEOIssue(url, "HTTP Error",
                 http_error_severity(crawl_data.status_code), "Crawlability"))
     \o When(crawl_data.response_time > 3000,
             TechnicalSEOIssue(url, "Slow Response Time",
                 IF crawl_data.response_time > 5000 THEN "High" ELSE "Medium", "Performance"))
     \o missing_content_rules(crawl_data)
     \o When(h1_tags = <<>>,
             TechnicalSEOIssue(url, "Missing H1 Tag", "Medium", "Content"))
     \o When(h1_tags # <<>> /\ Len(h1_tags) > 1,
             TechnicalSEOIssue(url, "Multiple H1 Tags", "Low", "Content"))
     \o When(crawl_data.images_without_alt > 0,
             TechnicalSEOIssue(url, "Images Without Alt Text", "Medium", "Content"))
     \o When(crawl_data.page_size > 1024 * 1024,
             TechnicalSEOIssue(url, "Large Page Size", "Medium", "Performance"))
     \o When(content_length < 200,
             TechnicalSEOIssue(url, "Thin Content", "High", "Content"))
     \o When(crawl_data.title # "" /\ title_len < 30,
             TechnicalSEOIssue(url, "Short Title Tag", "Medium", "Content"))
     \o When(crawl_data.title # "" /\ ~(title_len < 30) /\ title_len > 70,
             TechnicalSEOIssue(url, "Long Title Tag", "Medium", "Content"))
     \o When(crawl_data.title # "" /\ AnyPatternIn(generic_patterns, Lower(title)),
             TechnicalSEOIssue(url, "Generic Title Tag", "High", "Content"))
     \o When(crawl_data.meta_description # "" /\ meta_len < 120,
             TechnicalSEOIssue(url, "Short Meta Description", "Low", "Content"))
     \o When(crawl_data.meta_description # "" /\ ~(meta_len < 120) /\ meta_len > 170,
             TechnicalSEOIssue(url, "Long Meta Description", "Low", "Content"))
     \o When(~has_canonical,
             TechnicalSEOIssue(url, "Missing Canonical Tag", "High", "Technical SEO"))
     \o When(has_canonical /\ crawl_data.canonical_url[1] # url
                /\ ~StartsWith(Text[crawl_data.canonical_url[1]], Text["http"]),
             TechnicalSEOIssue(url, "Invalid Canonical URL", "High", "Technical SEO"))
     \o When(crawl_data.internal_links < 3,
             TechnicalSEOIssue(url, "Insufficient Internal Links", "Medium", "Technical SEO"))
     \o When(crawl_data.external_links > 50,
             TechnicalSEOIssue(url, "Excessive External Links", "Low", "Technical SEO"))
     \o When(crawl_data.robots_meta # ""
                /\ Contains(robots_content, Text["noindex"])
                /\ Contains(robots_content, Text["nofollow"]),
             TechnicalSEOIssue(url, "Blocked by Robots Meta", "Critical", "Technical SEO"))

\* for crawl_data in audit_results['crawl_data']: the per-page rules, record by record
RECURSIVE per_page_pass(_)
per_page_pass(crawl_list) ==
    IF crawl_list = <<>> THEN <<>>
    ELSE page_rules(Head(crawl_list)) \o per_page_pass(Tail(crawl_list))

\* Variant: a title of exactly 10 characters tracked as well
title_tracked_from_10(title) == title # <<>> /\ Len(title) >= 10

\* len(title) > 10: the shortest title the duplicate pass tracks has 11 characters
title_tracked(title) == title # <<>> /\ Len(title) > 10

\* len(meta_desc) > 20
meta_tracked(meta_desc) == meta_desc # <<>> /\ Len(meta_desc) > 20

\* Variant: only the record at hand is flagged, not the URL seen first
duplicate_issues_current_only(crawl_data, titles_seen, meta_descriptions_seen) ==
    LET url == crawl_data.url
        title == Strip(Text[crawl_data.title])
        meta_desc == Strip(Text[crawl_data.meta_description])
    IN  (IF title_tracked(title) /\ title \in DOMAIN titles_seen
           THEN << TechnicalSEOIssue(url, "Duplicate Title Tags", "High", "Content") >>
           ELSE <<>>)
     \o (IF meta_tracked(meta_desc) /\ meta_desc \in DOMAIN meta_descriptions_seen
           THEN << TechnicalSEOIssue(url, "Duplicate Meta Descriptions", "Medium", "Content") >>
           ELSE <<>>)

\* One record of the cross-page loop: the issues it appends.  titles_seen and
\* meta_descriptions_seen are the dicts (stripped text -> first URL seen with it).
duplicate_issues(crawl_data, titles_seen, meta_descriptions_seen) ==
    LET url == crawl_data.url
        title == Strip(Text[crawl_data.title])
        meta_desc == Strip(Text[crawl_data.meta_description])
    IN  (IF title_tracked(title) /\ title \in DOMAIN titles_seen
           THEN << TechnicalSEOIssue(url, "Duplicate Title Tags", "High", "Content"),
                   TechnicalSEOIssue(titles_seen[title], "Duplicate Title Tags", "High", "Content") >>
           ELSE <<>>)
     \o (IF meta_tracked(meta_desc) /\ meta_desc \in DOMAIN meta_descriptions_seen
           THEN << TechnicalSEOIssue(url, "Duplicate Meta Descriptions", "Medium", "Content"),
                   TechnicalSEOIssue(meta_descriptions_seen[meta_desc],
                                     "Duplicate Meta Descriptions", "Medium", "Content") >>
           ELSE <<>>)

\* {}
EmptyDict == [k \in {} |-> k]

\* dict update of the cross-page loop: a tracked text not seen before is recorded
seen_after(seen, tracked, text, url) ==
    IF tracked /\ text \notin DOMAIN seen THEN (text :> url) @@ seen ELSE seen

RECURSIVE duplicate_loop(_, _, _)
duplicate_loop(crawl_list, titles_seen, meta_descriptions_seen) ==
    IF crawl_list = <<>> THEN <<>>
    ELSE LET crawl_data == Head(crawl_list)
             title == Strip(Text[crawl_data.title])
             meta_desc == Strip(Text[crawl_data.meta_description])
         IN duplicate_issues(crawl_data, titles_seen, meta_descriptions_seen)
            \o duplicate_loop(Tail(crawl_list),
                   seen_after(titles_seen, title_tracked(title), title, crawl_data.url),
                   seen_after(meta_descriptions_seen, meta_tracked(meta_desc), meta_desc,
                              crawl_data.url))

\* The cross-page pass: titles_seen = {} and meta_descriptions_seen = {} at the start
duplicate_pass(crawl_list) ==
    duplicate_loop(crawl_list, EmptyDict, EmptyDict)

\* schema_data.get('error') taken as a condition: the key is there and its text is not
\* empty.  error is <<>> for a result without the key and <<str(e)>> for one with it.
schema_error(schema_data) ==
    schema_data.error # <<>> /\ schema_data.error[1] # ""

\* One schema result of the structured-data pass.
schema_rules(schema_data) ==
    LET url == schema_data.url
        page_type == page_type_of[url]
    IN IF url # "" /\ ~schema_error(schema_data)
       THEN When(schema_data.json_ld_count = 0,
                 TechnicalSEOIssue(url, "Missing Structured Data", "Medium", "Technical SEO"))
         \o When(page_type = "product" /\ "Product" \notin schema_data.schema_types_found,
                 TechnicalSEOIssue(url, "Missing Product Schema", "High", "Technical SEO"))
         \o When(page_type = "homepage" /\ "Organization" \notin schema_data.schema_types_found,
                 TechnicalSEOIssue(url, "Missing Organization Schema", "Medium", "Technical SEO"))
       ELSE <<>>

RECURSIVE schema_pass(_)
schema_pass(schema_list) ==
    IF schema_list = <<>> THEN <<>>
    ELSE schema_rules(Head(schema_list)) \o schema_pass(Tail(schema_list))

\* Variant: the cross-reference counts issues of every category
crawl_issues_any_category(issues, url) ==
    SelectSeq(issues, LAMBDA issue : issue.url = url)

\* [issue for issue in issues if issue.url == url and issue.category != 'GSC Performance']
crawl_issues_for_url(issues, url) ==
    SelectSeq(issues, LAMBDA issue : issue.url = url /\ issue.category # "GSC Performance")

\* Variant: zero clicks reported only where the low-CTR rule did not fire
gsc_threshold_rules_exclusive(gsc_metric) ==
    LET url == gsc_metric.url
        impressions == gsc_metric.impressions
        clicks == gsc_metric.clicks
        ctr == gsc_metric.ctr
        position == gsc_metric.position
    IN When(impressions > 1000 /\ ctr < 200,
            TechnicalSEOIssue(url, "High Impressions Low CTR", "High", "GSC Performance"))
    \o When(impressions > 500 /\ position > 100,
            TechnicalSEOIssue(url, "High Impressions Poor Position", "Medium", "GSC Performance"))
    \o When(impressions > 1000 /\ clicks = 0 /\ ~(ctr < 200),
            TechnicalSEOIssue(url, "High Impressions Zero Clicks", "Critical", "GSC Performance"))
    \o When(impressions > 10000,
            TechnicalSEOIssue(url, "High Value Page Opportunity", "Medium", "GSC Performance"))

\* The four threshold rules of the search-performance pass (ctr in 1/10000, position
\* in tenths)
gsc_threshold_rules(gsc_metric) ==
    LET url == gsc_metric.url
        impressions == gsc_metric.impressions
        clicks == gsc_metric.clicks
        ctr == gsc_metric.ctr
        position == gsc_metric.position
    IN When(impressions > 1000 /\ ctr < 200,
            TechnicalSEOIssue(url, "High Impressions Low CTR", "High", "GSC Performance"))
    \o When(impressions > 500 /\ position > 100,
            TechnicalSEOIssue(url, "High Impressions Poor Position", "Medium", "GSC Performance"))
    \o When(impressions > 1000 /\ clicks = 0,
            TechnicalSEOIssue(url, "High Impressions Zero Clicks", "Critical", "GSC Performance"))
    \o When(impressions > 10000,
            TechnicalSEOIssue(url, "High Value Page Opportunity", "Medium", "GSC Performance"))

\* One GSCMetrics row of the search-performance pass; issues is the list so far.
gsc_rules(gsc_metric, issues) ==
    LET url == gsc_metric.url
        impressions == gsc_metric.impressions
        threshold == gsc_threshold_rules(gsc_metric)
    IN threshold
       \o When(crawl_issues_for_url(issues \o threshold, url) # <<>> /\ impressions > 1000,
               TechnicalSEOIssue(url, "High Traffic Page with Technical Issues", "Critical",
                                 "GSC Performance"))

\* for gsc_metric in gsc_metrics_list: the rows of one domain, appended to issues
RECURSIVE gsc_rows_pass(_, _)
gsc_rows_pass(gsc_metrics_list, issues) ==
    IF gsc_metrics_list = <<>> THEN issues
    ELSE gsc_rows_pass(Tail(gsc_metrics_list),
                       issues \o gsc_rules(Head(gsc_metrics_list), issues))

\* for domain, gsc_metrics_list in audit_results['gsc_data'].items()
RECURSIVE gsc_pass(_, _)
gsc_pass(gsc_data, issues) ==
    IF gsc_data = <<>> THEN issues
    ELSE gsc_pass(Tail(gsc_data), gsc_rows_pass(Head(gsc_data).rows, issues))

\* _analyze_issues: per-page pass, cross-page pass, structured-data pass, GSC pass
analyze_issues(audit_results) ==
    gsc_pass(audit_results.gsc_data,
             per_page_pass(audit_results.crawl_data)
             \o duplicate_pass(audit_results.crawl_data)
             \o schema_pass(audit_results.schema_data))

\* ------------------------------------------------------------------------
\* Team router: _categorize_issues_by_team
\* ------------------------------------------------------------------------
\* team_categories.items(), in insertion order
team_order == <<"tech_team", "marketing_team", "design_team">>

team_issue_types ==
    "tech_team" :>
      <<"HTTP Error", "Slow Response Time", "Large Page Size",
        "Missing Canonical Tag", "Invalid Canonical URL", "Blocked by Robots Meta",
        "Missing Structured Data", "Missing Product Schema", "Missing Organization Schema",
        "Insufficient Internal Links", "Excessive External Links",
        "High Impressions Zero Clicks", "High Traffic Page with Technical Issues",
        "missing_canonical", "crawlability", "https_issues",
        "server_errors", "redirect_chains", "broken_links">>
 @@ "marketing_team" :>
      <<"Missing Title Tag", "Short Title Tag", "Long Title Tag", "Generic Title Tag",
        "Duplicate Title Tags", "Missing Meta Description", "Short Meta Description",
        "Long Meta Description", "Duplicate Meta Descriptions", "Missing H1 Tag",
        "Multiple H1 Tags", "Thin Content",
        "High Impressions Low CTR", "High Impressions Poor Position", "High Value Page Opportunity",
        "duplicate_content", "keyword_optimization", "thin_content", "missing_schema">>
 @@ "design_team" :>
      <<"Images Without Alt Text", "not_mobile_friendly", "poor_ux",
        "mobile_usability", "touch_targets", "viewport_issues",
        "image_optimization", "layout_issues">>

\* Variant: a keyword matches by its first seven characters
team_matches_by_prefix(team, issue_type) ==
    LET types == team_issue_types[team]
        keyword(i) == Replace(Lower(Text[types[i]]), "_", " ")
    IN \/ \E i \in 1..Len(types) : types[i] = issue_type
       \/ \E i \in 1..Len(types) :
              Contains(Lower(Text[issue_type]), SubSeq(keyword(i), 1, Min(7, Len(keyword(i)))))

\* issue_type in data['issue_types'] or
\* any(keyword in issue_type.lower()
\*     for keyword in [t.lower().replace('_', ' ') for t in data['issue_types']])
team_matches(team, issue_type) ==
    LET types == team_issue_types[team]
    IN \/ \E i \in 1..Len(types) : types[i] = issue_type
       \/ \E i \in 1..Len(types) :
              Contains(Lower(Text[issue_type]), Replace(Lower(Text[types[i]]), "_", " "))

\* Variant: no default bucket for an issue type that matches no team
assigned_team_no_default(issue_type) ==
    IF \E i \in 1..Len(team_order) : team_matches(team_order[i], issue_type)
    THEN team_order[CHOOSE i \in 1..Len(team_order) :
                       /\ team_matches(team_order[i], issue_type)
                       /\ \A j \in 1..(i - 1) : ~team_matches(team_order[j], issue_type)]
    ELSE "unassigned"

\* The bucket the loop appends the issue to: the first team that matches (break),
\* tech_team when none does.
assigned_team(issue_type) ==
    IF \E i \in 1..Len(team_order) : team_matches(team_order[i], issue_type)
    THEN team_order[CHOOSE i \in 1..Len(team_order) :
                       /\ team_matches(team_order[i], issue_type)
                       /\ \A j \in 1..(i - 1) : ~team_matches(team_order[j], issue_type)]
    ELSE "tech_team"

\* issue_type values the model routes: the scorer's keys, the teams' keywords, and others
RoutedTypes ==
    DOMAIN issue_severity
    \cup UNION {{team_issue_types[team][i] : i \in 1..Len(team_issue_types[team])} :
                   team \in DOMAIN team_issue_types}
    \cup {"Custom Check", "Server Errors Found", "Thin Content Warning", "Poor UX on mobile"}

\* assigned_team, evaluated once per issue type of the model
team_of == [issue_type \in RoutedTypes |-> assigned_team(issue_type)]

\* for issue in issues: data['issues'].append(issue)
RECURSIVE categorize_loop(_, _)
categorize_loop(issues, team_lists) ==
    IF issues = <<>> THEN team_lists
    ELSE categorize_loop(Tail(issues),
             [team_lists EXCEPT ![team_of[Head(issues).issue_type]] =
                                    Append(@, Head(issues))])

RECURSIVE SumImpact(_)
SumImpact(issues) ==
    IF issues = <<>> THEN 0 ELSE Head(issues).impact_score + SumImpact(Tail(issues))

\* Variant: a critical issue counted under every severity
CountSeverity_or_critical(issues, severity) ==
    Len(SelectSeq(issues, LAMBDA i : i.severity = severity \/ i.severity = "Critical"))

\* len([i for i in issues if i.severity == severity])
CountSeverity(issues, severity) ==
    Len(SelectSeq(issues, LAMBDA i : i.severity = severity))

\* Variant: the average taken without the emptiness guard (0 / 0 for an empty bucket)
avg_impact_unguarded(team_issues) ==
    [num |-> SumImpact(team_issues), den |-> Len(team_issues)]

\* sum(...) / len(team_issues) if team_issues else 0
avg_impact_of(team_issues) ==
    IF team_issues # <<>>
    THEN Frac(SumImpact(team_issues), Len(team_issues))
    ELSE Frac(0, 1)

\* Variant: the weights of critical and high issues exchanged
team_metrics_weights_swapped(team_issues) ==
    [issues |-> team_issues,
     total_issues |-> Len(team_issues),
     critical_issues |-> CountSeverity(team_issues, "Critical"),
     high_issues |-> CountSeverity(team_issues, "High"),
     avg_impact |-> avg_impact_of(team_issues),
     priority_score |-> CountSeverity(team_issues, "Critical") * 5
                        + CountSeverity(team_issues, "High") * 10
                        + Len(team_issues)]

\* Calculate team metrics
team_metrics(team_issues) ==
    [issues |-> team_issues,
     total_issues |-> Len(team_issues),
     critical_issues |-> CountSeverity(team_issues, "Critical"),
     high_issues |-> CountSeverity(team_issues, "High"),
     avg_impact |-> avg_impact_of(team_issues),
     priority_score |-> CountSeverity(team_issues, "Critical") * 10
                        + CountSeverity(team_issues, "High") * 5
                        + Len(team_issues)]

categorize_issues_by_team(issues) ==
    LET team_lists == categorize_loop(issues, [team \in {"tech_team", "marketing_team", "design_team"} |-> <<>>])
    IN [team \in DOMAIN team_lists |-> team_metrics(team_lists[team])]

\* ------------------------------------------------------------------------
\* Aggregator: _generate_audit_summary and _get_strategic_insights
\* ------------------------------------------------------------------------
\* Keys of page_issues in insertion order: the URLs of issues, by first appearance
RECURSIVE page_issue_urls(_, _)
page_issue_urls(issues, seen) ==
    IF issues = <<>> THEN seen
    ELSE page_issue_urls(Tail(issues),
             IF \E i \in 1..Len(seen) : seen[i] = Head(issues).url
             THEN seen ELSE Append(seen, Head(issues).url))

\* page_issues[url]
page_issues_of(issues, url) ==
    SelectSeq(issues, LAMBDA issue : issue.url = url)

\* self.strategic_scorer.page_weights.get(classify_page_type(url), 2.0), in tenths
page_weight(url) == page_weight_of(page_type_of[url])

\* for url, url_issues in page_issues.items(): total_weighted_impact (in tenths)
RECURSIVE weighted_impact_loop(_, _)
weighted_impact_loop(urls, issues) ==
    IF urls = <<>> THEN 0
    ELSE SumImpact(page_issues_of(issues, Head(urls))) * page_weight(Head(urls))
         + weighted_impact_loop(Tail(urls), issues)

\* for url, url_issues in page_issues.items(): total_weight (in tenths)
RECURSIVE issue_weight_loop(_)
issue_weight_loop(urls) ==
    IF urls = <<>> THEN 0 ELSE page_weight(Head(urls)) + issue_weight_loop(Tail(urls))

\* Variant: pages without issues left out of total_weight
clean_weight_omitted(crawl_data, urls) == 0

\* Variant: only the first crawl record is looked at
clean_weight_first_only(crawl_data, urls) ==
    IF crawl_data = <<>> THEN 0
    ELSE IF \E i \in 1..Len(urls) : urls[i] = Head(crawl_data).url
         THEN 0 ELSE page_weight(Head(crawl_data).url)

\* Include pages with no issues: for page_data in crawl_data, url not in page_issues
RECURSIVE clean_weight_loop(_, _)
clean_weight_loop(crawl_data, urls) ==
    IF crawl_data = <<>> THEN 0
    ELSE (IF \E i \in 1..Len(urls) : urls[i] = Head(crawl_data).url
          THEN 0 ELSE page_weight(Head(crawl_data).url))
         + clean_weight_loop(Tail(crawl_data), urls)
\* Variant: the scaled impact added to 100 instead of subtracted
seo_score_sign_slip(total_weighted_impact, total_weight) ==
    IF total_weight > 0
    THEN Frac(Max(0, 100 * 50 * total_weight + total_weighted_impact), 50 * total_weight)
    ELSE Frac(100, 1)

\* Variant: seo_score left at its initial 0 when total_weight is 0
seo_score_no_default(total_weighted_impact, total_weight) ==
    IF total_weight > 0
    THEN Frac(Max(0, 100 * 50 * total_weight - total_weighted_impact), 50 * total_weight)
    ELSE Frac(0, 1)

\* max(0, 100 - (total_weighted_impact / total_weight) / 50) if total_weight > 0 else 100
seo_score_of(total_weighted_impact, total_weight) ==
    IF total_weight > 0
    THEN Frac(Max(0, 100 * 50 * total_weight - total_weighted_impact), 50 * total_weight)
    ELSE Frac(100, 1)

RECURSIVE SumResponseTime(_)
SumResponseTime(crawl_data) ==
    IF crawl_data = <<>> THEN 0
    ELSE Head(crawl_data).response_time + SumResponseTime(Tail(crawl_data))

\* One entry of insights['critical_business_impact']
business_impact_entry(url, url_issues) ==
    [url |-> url,
     page_type |-> page_type_of[url],
     critical_issues |-> CountSeverity(url_issues, "Critical"),
     business_importance |-> page_weight(url)]

RECURSIVE critical_business_impact(_, _)
critical_business_impact(urls, issues) ==
    IF urls = <<>> THEN <<>>
    ELSE When(page_weight(Head(urls)) >= 40
                /\ CountSeverity(page_issues_of(issues, Head(urls)), "Critical") > 0,
              business_impact_entry(Head(urls), page_issues_of(issues, Head(urls))))
         \o critical_business_impact(Tail(urls), issues)

get_strategic_insights(urls, issues) ==
    LET types == {page_type_of[urls[i]] : i \in 1..Len(urls)}
    IN [high_priority_pages_with_issues |->
            Cardinality({i \in 1..Len(urls) : page_weight(urls[i]) >= 40}),
        page_type_breakdown |->
            [t \in types |->
                [pages |-> Cardinality({i \in 1..Len(urls) : page_type_of[urls[i]] = t}),
                 issues |-> Len(SelectSeq(issues, LAMBDA issue : page_type_of[issue.url] = t))]],
        critical_business_impact |-> critical_business_impact(urls, issues)]

\* The summary dict built from issues and crawl_data: every name the function
\* writes is a local created by the call
audit_summary_of(issues, crawl_data) ==
    LET urls == page_issue_urls(issues, <<>>)
        total_weighted_impact == weighted_impact_loop(urls, issues)
        total_weight == issue_weight_loop(urls) + clean_weight_loop(crawl_data, urls)
    IN [total_issues |-> Len(issues),
        critical_issues |-> CountSeverity(issues, "Critical"),
        high_issues |-> CountSeverity(issues, "High"),
        medium_issues |-> CountSeverity(issues, "Medium"),
        low_issues |-> CountSeverity(issues, "Low"),
        issue_categories |->
            [c \in {issues[i].category : i \in 1..Len(issues)} |->
                Len(SelectSeq(issues, LAMBDA issue : issue.category = c))],
        avg_response_time |->
            IF crawl_data # <<>>
            THEN Frac(SumResponseTime(crawl_data), Len(crawl_data))
            ELSE Frac(0, 1),
        error_pages |->
            IF crawl_data # <<>>
            THEN Len(SelectSeq(crawl_data, LAMBDA c : c.status_code >= 400))
            ELSE 0,
        seo_score |-> seo_score_of(total_weighted_impact, total_weight),
        strategic_insights |-> get_strategic_insights(urls, issues),
        team_breakdown |-> categorize_issues_by_team(issues)]

\* Variant: the counters continue from the summary audit_results already holds
generate_audit_summary_carried(audit_results) ==
    LET summary == audit_summary_of(audit_results.issues, audit_results.crawl_data)
        previous == audit_results.summary
    IN IF DOMAIN previous = {} THEN summary
       ELSE [summary EXCEPT !.total_issues = @ + previous.total_issues,
                            !.critical_issues = @ + previous.critical_issues]

\* issues = audit_results['issues']; crawl_data = audit_results['crawl_data']
generate_audit_summary(audit_results) ==
    audit_summary_of(audit_results.issues, audit_results.crawl_data)

\* ------------------------------------------------------------------------
\* Collaborators: GoogleSearchConsoleAPI, WebCrawler, PageSpeedCollector,
\* SchemaValidator
\* ------------------------------------------------------------------------
\* coverage_metrics.sort(key=impressions, reverse=True): stable, descending
RECURSIVE sort_by_impressions(_)
sort_by_impressions(rows) ==
    IF rows = <<>> THEN <<>>
    ELSE LET rest == sort_by_impressions(SubSeq(rows, 1, Len(rows) - 1))
             last == rows[Len(rows)]
             ahead == SelectSeq(rest, LAMBDA r : r.impressions >= last.impressions)
             behind == SelectSeq(rest, LAMBDA r : r.impressions < last.impressions)
         IN ahead \o <<last>> \o behind

\* get_coverage_issues: the rows of one property, top pages by impressions
get_coverage_issues(rows, top_pages_limit) ==
    SubSeq(sort_by_impressions(rows), 1, Min(top_pages_limit, Len(rows)))

\* Variant: the record carries another address than the one requested
crawl_url_other_address(url, page) ==
    [url |-> UrlCart,
     status_code |-> page.status_code,
     response_time |-> page.response_time,
     title |-> page.title,
     meta_description |-> page.meta_description,
     h1_tags |-> page.h1_tags,
     canonical_url |-> page.canonical_url,
     robots_meta |-> page.robots_meta,
     internal_links |-> page.internal_links,
     external_links |-> page.external_links,
     images_without_alt |-> page.images_without_alt,
     page_size |-> page.page_size]

\* asdict(CrawlMetrics(url=url, ...)) for the page the site serves at url; page.title,
\* page.meta_description and page.h1_tags are the texts as parsed and stripped
crawl_url(url, page) ==
    [url |-> url,
     status_code |-> page.status_code,
     response_time |-> page.response_time,
     title |-> page.title,
     meta_description |-> page.meta_description,
     h1_tags |-> page.h1_tags,
     canonical_url |-> page.canonical_url,
     robots_meta |-> page.robots_meta,
     internal_links |-> page.internal_links,
     external_links |-> page.external_links,
     images_without_alt |-> page.images_without_alt,
     page_size |-> page.page_size]

\* What the try block of _validate_with_schemaorg can do: raise nothing (<<>>) or raise
\* an exception e, given as <<str(e)>>; an exception built without arguments has str(e) = ''
SchemaFetchOutcomes == {<<>>, <<"">>, <<"Read timed out">>}

\* _validate_with_schemaorg: the result for url, or {'url': url, 'error': str(e)}; the
\* fields an error result lacks hold what get() defaults them to in the schema pass
validate_structured_data(url, page, raised) ==
    IF raised # <<>>
    THEN [url |-> url, error |-> raised, json_ld_count |-> 0, schema_types_found |-> {}]
    ELSE [url |-> url, error |-> <<>>, json_ld_count |-> page.json_ld_count,
          schema_types_found |-> page.schema_types_found]

\* urls_to_audit[:n]
FirstN(urls, n) == SubSeq(urls, 1, Min(n, Len(urls)))

\* for url in urls_to_audit[:5]: for strategy in ['mobile', 'desktop']
RECURSIVE pagespeed_loop(_)
pagespeed_loop(urls) ==
    IF urls = <<>> THEN <<>>
    ELSE << [url |-> Head(urls), strategy |-> "mobile"],
            [url |-> Head(urls), strategy |-> "desktop"] >> \o pagespeed_loop(Tail(urls))

\* ------------------------------------------------------------------------
\* Sample inputs
\* ------------------------------------------------------------------------
\* Bounds of the model
MaxUrls == 2
MaxIssues == 2
MaxCrawl == 2

\* issue_type values given to the scorer: every key of issue_severity and some without entry
IssueTypeInputs ==
    DOMAIN issue_severity \cup {"Custom Check", "Server Errors Found", "missing_schema", "poor_ux"}

TitleHome == "Acme photo gifts and prints online!!!!!!"
TitleProduct == "Acme canvas prints in every size!!!!!!!!!"
TitleBlog == "Acme journal: ideas for photo books!!!!!!!"
Title11 == "Acme gifts!"
Title10 == "Acme gifts"
TitleLong == "Acme long title!!!!!!!!!!!!!!!!!!!!!!!!!!!!!!!!!!!!!!!!!!!!!!!!!!!!!!!!"
MetaHome == "Order personalised photo gifts........................................................................................................................"
MetaProduct == "Browse canvas prints by size..........................................................................................................................."
MetaBlog == "Read the Acme journal..................................................................................................................................."
Meta21 == "Gifts for everyone..."
Meta20 == "Gifts for everyone.."
MetaLong == "Too long..................................................................................................................................................................."

\* A page on which no rule fires: what the site serves at url
CleanPage(url, title, meta_description) ==
    [status_code |-> 200,
     response_time |-> 800,
     title |-> title,
     meta_description |-> meta_description,
     h1_tags |-> <<"Welcome to Acme">>,
     canonical_url |-> <<url>>,
     robots_meta |-> "",
     internal_links |-> 12,
     external_links |-> 4,
     images_without_alt |-> 0,
     page_size |-> 50000,
     json_ld_count |-> 1,
     schema_types_found |-> {"Organization", "Product", "WebSite"}]

CleanHome == CleanPage(UrlHome, TitleHome, MetaHome)
CleanProduct == CleanPage(UrlProduct, TitleProduct, MetaProduct)
CleanBlog == CleanPage(UrlBlog, TitleBlog, MetaBlog)

GscRow(url, impressions, clicks, ctr, position) ==
    [url |-> url, impressions |-> impressions, clicks |-> clicks, ctr |-> ctr,
     position |-> position]

Site(home, product, blog, gsc_rows) ==
    [pages |-> (UrlHome :> home @@ UrlProduct :> product @@ UrlBlog :> blog),
     gsc_rows |-> gsc_rows]

\* The sites audited: what each URL serves and what Search Console reports
Sites ==
    { \* every page clean, no search data
      Site(CleanHome, CleanProduct, CleanBlog, <<>>),
      \* broken pages
      Site([CleanHome EXCEPT !.status_code = 503, !.title = "", !.meta_description = "",
                             !.h1_tags = <<>>, !.canonical_url = <<>>, !.json_ld_count = 0,
                             !.schema_types_found = {}],
           [CleanProduct EXCEPT !.status_code = 404, !.schema_types_found = {"WebSite"}],
           [CleanBlog EXCEPT !.response_time = 6000, !.images_without_alt = 3,
                             !.page_size = 2000000, !.robots_meta = "noindex, nofollow",
                             !.external_links = 60, !.internal_links = 1,
                             !.h1_tags = <<"Welcome to Acme", "Second heading">>,
                             !.title = TitleLong, !.meta_description = MetaLong,
                             !.canonical_url = <<"/index.html">>],
           << GscRow(UrlHome, 20000, 0, 0, 125) >>),
      \* home and product share a title of 11 and a description of 21 characters
      Site([CleanHome EXCEPT !.title = Title11, !.meta_description = Meta21],
           [CleanProduct EXCEPT !.title = Title11, !.meta_description = Meta21],
           CleanBlog, <<>>),
      \* home and product share a title of 10 and a description of 20 characters
      Site([CleanHome EXCEPT !.title = Title10, !.meta_description = Meta20],
           [CleanProduct EXCEPT !.title = Title10, !.meta_description = Meta20],
           [CleanBlog EXCEPT !.title = Title11, !.meta_description = Meta21],
           <<>>),
      \* all three pages share one title
      Site(CleanHome,
           [CleanProduct EXCEPT !.title = TitleHome],
           [CleanBlog EXCEPT !.title = TitleHome],
           << GscRow(UrlBlog, 1500, 40, 266, 42) >>),
      \* clean pages, search data for an audited page and for one that is not audited
      Site(CleanHome, CleanProduct, CleanBlog,
           << GscRow(UrlHome, 600, 30, 500, 120),
              GscRow(UrlCart, 12000, 100, 83, 31) >>),
      \* a generic home title, a slow product page, product and blog share a description
      Site([CleanHome EXCEPT !.title = "Home Page", !.robots_meta = "noindex"],
           [CleanProduct EXCEPT !.response_time = 3500, !.json_ld_count = 0,
                                !.schema_types_found = {}],
           [CleanBlog EXCEPT !.meta_description = MetaProduct],
           << GscRow(UrlProduct, 1200, 0, 0, 87),
              GscRow(UrlHome, 5000, 400, 800, 12) >>) }

\* Issue lists given to the aggregator and the router directly
IssueInputs ==
    { [url |-> UrlHome, issue_type |-> "HTTP Error", severity |-> "Critical",
       category |-> "Crawlability", status |-> "New", impact_score |-> 100],
      [url |-> UrlBlog, issue_type |-> "Thin Content", severity |-> "High",
       category |-> "Content", status |-> "New", impact_score |-> 68],
      [url |-> UrlProduct, issue_type |-> "Images Without Alt Text", severity |-> "Medium",
       category |-> "Content", status |-> "New", impact_score |-> 72],
      [url |-> UrlCart, issue_type |-> "Custom Check", severity |-> "Low",
       category |-> "Custom", status |-> "New", impact_score |-> 0],
      [url |-> UrlBlog, issue_type |-> "Server Errors Found", severity |-> "Critical",
       category |-> "Crawlability", status |-> "Existing", impact_score |-> 40],
      [url |-> UrlHome, issue_type |-> "Poor UX on mobile", severity |-> "Low",
       category |-> "Mobile", status |-> "New", impact_score |-> 33] }

\* Crawl records given to the aggregator directly
CrawlInputs ==
    { crawl_url(UrlHome, CleanHome),
      crawl_url(UrlProduct, [CleanProduct EXCEPT !.status_code = 404, !.response_time = 3100]),
      crawl_url(UrlBlog, CleanBlog) }

\* Status codes around the limits of the HTTP status rule
StatusCodeInputs == {200, 301, 399, 400, 404, 499, 500, 503}

\* Crawl records given to the analysis directly: pages clean but for their status
StatusRecords ==
    { crawl_url(UrlHome, [CleanHome EXCEPT !.status_code = status_code]) :
          status_code \in StatusCodeInputs }
    \cup { crawl_url(UrlProduct, [CleanProduct EXCEPT !.status_code = status_code]) :
               status_code \in StatusCodeInputs }

\* Crawl records given to the analysis directly: the blog page without title, without
\* description, and without both
ContentRecords ==
    { crawl_url(UrlBlog, [CleanBlog EXCEPT !.title = ""]),
      crawl_url(UrlBlog, [CleanBlog EXCEPT !.meta_description = ""]),
      crawl_url(UrlBlog, [CleanBlog EXCEPT !.title = "", !.meta_description = ""]) }

\* Crawl records given to the analysis directly
AnalysisRecords == StatusRecords \cup ContentRecords

\* Crawl records most in one list given to the cross-page pass directly
MaxShared == 3

\* Crawl records with shared texts: home, product and blog page with one title, and a
\* product and a blog page with one description
SharedTextRecords ==
    { crawl_url(UrlHome, CleanHome),
      crawl_url(UrlProduct, [CleanProduct EXCEPT !.title = TitleHome]),
      crawl_url(UrlBlog, [CleanBlog EXCEPT !.title = TitleHome]),
      crawl_url(UrlProduct, CleanProduct),
      crawl_url(UrlBlog, [CleanBlog EXCEPT !.meta_description = MetaProduct]) }

\* Sequences over S of length at most n
SeqsUpTo(S, n) == UNION {[1..k -> S] : k \in 0..n}

\* Rows most in one search-performance list given to the analysis directly
MaxGscRows == 2

\* Search-performance rows around the limits of the threshold rules
GscRowInputs ==
    { GscRow(UrlProduct, impressions, clicks, ctr, position) :
          impressions \in {500, 501, 1000, 1001, 10000, 10001},
          clicks \in {0, 1}, ctr \in {199, 200}, position \in {100, 101} }

\* Rows for lists of several records
GscPairInputs ==
    { GscRow(UrlProduct, 1001, 0, 0, 101), GscRow(UrlProduct, 10001, 1, 200, 100),
      GscRow(UrlHome, 501, 1, 199, 101), GscRow(UrlHome, 1000, 0, 0, 100) }

\* ------------------------------------------------------------------------
\* State
\* ------------------------------------------------------------------------
VARIABLES
    pc,               \* position of run_comprehensive_audit
    config,           \* which clients the constructor built: [gsc, storage]
    site,             \* the audited site: pages served and search data reported
    urls_to_audit,    \* argument of run_comprehensive_audit
    pending,          \* futures of the crawl fan-out not yet completed (indices)
    crawl_failed,     \* futures completed without a record: crawl_url returned None
                      \* or future.result() raised (indices)
    gsc_data,         \* audit_results['gsc_data']
    crawl_data,       \* audit_results['crawl_data']
    pagespeed_data,   \* audit_results['pagespeed_data']
    schema_data,      \* audit_results['schema_data']
    issues,           \* audit_results['issues']
    summary,          \* audit_results['summary']
    store_outcome,    \* what _store_audit_results did
    scorer_args,      \* a call of a StrategicSEOScorer method: <<issue_type, url>> for
                      \* get_strategic_impact_score, <<url>> for classify_page_type
    scorer_ret        \* its return value: <<>> before the call returns, <<value>> after

vars == <<pc, config, site, urls_to_audit, pending, crawl_failed, gsc_data, crawl_data, pagespeed_data,
          schema_data, issues, summary, store_outcome, scorer_args, scorer_ret>>

\* audit_results as the analysis and the summary read it
audit_results ==
    [gsc_data |-> gsc_data, crawl_data |-> crawl_data, schema_data |-> schema_data,
     issues |-> issues, summary |-> summary]

site_urls == <<"sc-domain:x.com">>

\* audit_results['gsc_data'] given to the analysis directly: no domain, or one domain
\* with its list of rows
GscDataInputs ==
    {<<>>}
    \cup { << [domain |-> site_urls[1], rows |-> rows] >> :
               rows \in SeqsUpTo(GscRowInputs, 1) \cup SeqsUpTo(GscPairInputs, MaxGscRows) }

\* audit_results at the start of run_comprehensive_audit
Init ==
    /\ pc = "gsc"
    /\ config \in [gsc : BOOLEAN, storage : BOOLEAN]
    /\ site \in Sites
    /\ urls_to_audit \in SeqsUpTo(AuditUrls, MaxUrls)
    /\ pending = {}
    /\ crawl_failed = {}
    /\ gsc_data = <<>>
    /\ crawl_data = <<>>
    /\ pagespeed_data = <<>>
    /\ schema_data = <<>>
    /\ issues = <<>>
    /\ summary = EmptyDict
    /\ store_outcome = "none"
    /\ scorer_args = <<>>
    /\ scorer_ret = <<>>

\* 1. Google Search Console data, then the crawl futures are submitted
FetchGSC ==
    /\ pc = "gsc"
    /\ \E api_failed \in BOOLEAN :
          gsc_data' =
              IF ~config.gsc THEN <<>>
              ELSE << [domain |-> site_urls[1],
                       rows |-> IF api_failed THEN <<>>
                                ELSE get_coverage_issues(site.gsc_rows, 10)] >>
    /\ pending' = 1..Len(urls_to_audit)
    /\ pc' = "crawl"
    /\ UNCHANGED <<crawl_failed, config, site, urls_to_audit, crawl_data, pagespeed_data, schema_data,
                   issues, summary, store_outcome, scorer_args, scorer_ret>>

\* Variant: the exception of a failed fetch leaves the loop and the run
CrawlCompleted_unguarded(i) ==
    /\ pc = "crawl"
    /\ i \in pending
    /\ \E fetched \in BOOLEAN :
          /\ crawl_data' =
                 IF fetched
                 THEN Append(crawl_data, crawl_url(urls_to_audit[i], site.pages[urls_to_audit[i]]))
                 ELSE crawl_data
          /\ crawl_failed' = IF fetched THEN crawl_failed ELSE crawl_failed \cup {i}
          /\ pc' = IF fetched THEN pc ELSE "raised"
    /\ pending' = pending \ {i}
    /\ UNCHANGED <<config, site, urls_to_audit, gsc_data, pagespeed_data, schema_data,
                   issues, summary, store_outcome, scorer_args, scorer_ret>>

\* 2. as_completed yields one future: its record is appended, a failed fetch adds nothing
CrawlCompleted(i) ==
    /\ pc = "crawl"
    /\ i \in pending
    /\ \E fetched \in BOOLEAN :
          /\ crawl_data' =
                 IF fetched
                 THEN Append(crawl_data, crawl_url(urls_to_audit[i], site.pages[urls_to_audit[i]]))
                 ELSE crawl_data
          /\ crawl_failed' = IF fetched THEN crawl_failed ELSE crawl_failed \cup {i}
    /\ pending' = pending \ {i}
    /\ UNCHANGED <<pc, config, site, urls_to_audit, gsc_data, pagespeed_data, schema_data,
                   issues, summary, store_outcome, scorer_args, scorer_ret>>

\* 3. PageSpeed Insights for the first five URLs, once every future has completed
PageSpeedInsights ==
    /\ pc = "crawl"
    /\ pending = {}
    /\ pagespeed_data' = pagespeed_loop(FirstN(urls_to_audit, 5))
    /\ pc' = "schema"
    /\ UNCHANGED <<crawl_failed, config, site, urls_to_audit, pending, gsc_data, crawl_data, schema_data,
                   issues, summary, store_outcome, scorer_args, scorer_ret>>

\* 4. Schema validation of the first ten URLs; raised[k] is what the fetch of URL k raised
SchemaValidation ==
    /\ pc = "schema"
    /\ \E raised \in [1..Len(FirstN(urls_to_audit, 10)) -> SchemaFetchOutcomes] :
          schema_data' =
              [k \in 1..Len(FirstN(urls_to_audit, 10)) |->
                  validate_structured_data(urls_to_audit[k], site.pages[urls_to_audit[k]],
                                           raised[k])]
    /\ pc' = "analyze"
    /\ UNCHANGED <<crawl_failed, config, site, urls_to_audit, pending, gsc_data, crawl_data, pagespeed_data,
                   issues, summary, store_outcome, scorer_args, scorer_ret>>

\* audit_results['issues'] = self._analyze_issues(audit_results)
AnalyzeIssues ==
    /\ pc = "analyze"
    /\ issues' = analyze_issues(audit_results)
    /\ pc' = "summary"
    /\ UNCHANGED <<crawl_failed, config, site, urls_to_audit, pending, gsc_data, crawl_data, pagespeed_data,
                   schema_data, summary, store_outcome, scorer_args, scorer_ret>>

\* audit_results['summary'] = self._generate_audit_summary(audit_results)
GenerateSummary ==
    /\ pc = "summary"
    /\ summary' = generate_audit_summary(audit_results)
    /\ pc' = "store"
    /\ UNCHANGED <<crawl_failed, config, site, urls_to_audit, pending, gsc_data, crawl_data, pagespeed_data,
                   schema_data, issues, store_outcome, scorer_args, scorer_ret>>

\* StoreResults without the handler of lines 1402-1429: a failing write leaves the run
StoreResults_uncaught ==
    /\ pc = "store"
    /\ \E write_failed \in BOOLEAN :
          /\ store_outcome' =
                 IF issues = <<>> THEN "nothing"
                 ELSE IF ~config.storage \/ write_failed THEN "failed"
                 ELSE "stored"
          /\ pc' = IF store_outcome' = "failed" THEN "raised" ELSE "done"
    /\ UNCHANGED <<crawl_failed, config, site, urls_to_audit, pending, gsc_data, crawl_data, pagespeed_data,
                   schema_data, issues, summary, scorer_args, scorer_ret>>

\* self._store_audit_results(audit_results): nothing to write without issues; the write
\* raises without a configured table and may raise with one; the exception is logged
StoreResults ==
    /\ pc = "store"
    /\ \E write_failed \in BOOLEAN :
          store_outcome' =
              IF issues = <<>> THEN "nothing"
              ELSE IF ~config.storage \/ write_failed THEN "failed"
              ELSE "stored"
    /\ pc' = "done"
    /\ UNCHANGED <<crawl_failed, config, site, urls_to_audit, pending, gsc_data, crawl_data, pagespeed_data,
                   schema_data, issues, summary, scorer_args, scorer_ret>>

Next ==
    \/ FetchGSC
    \/ \E i \in 1..Len(urls_to_audit) : CrawlCompleted(i)
    \/ PageSpeedInsights
    \/ SchemaValidation
    \/ AnalyzeIssues
    \/ GenerateSummary
    \/ StoreResults

\* One audit run
Spec == Init /\ [][Next]_vars

\* _generate_audit_summary called on any issue list and crawl-record list
InitSummary ==
    /\ pc = "summary"
    /\ config = [gsc |-> FALSE, storage |-> FALSE]
    /\ site \in {Site(CleanHome, CleanProduct, CleanBlog, <<>>)}
    /\ urls_to_audit = <<>>
    /\ pending = {}
    /\ crawl_failed = {}
    /\ gsc_data = <<>>
    /\ crawl_data \in SeqsUpTo(CrawlInputs, MaxCrawl)
    /\ pagespeed_data = <<>>
    /\ schema_data = <<>>
    /\ issues \in SeqsUpTo(IssueInputs, MaxIssues)
    /\ summary = EmptyDict
    /\ store_outcome = "none"
    /\ scorer_args = <<>>
    /\ scorer_ret = <<>>

\* _generate_audit_summary called a second time on the same audit_results
GenerateSummaryAgain ==
    /\ pc = "store"
    /\ summary' = generate_audit_summary(audit_results)
    /\ pc' = "resummarized"
    /\ UNCHANGED <<crawl_failed, config, site, urls_to_audit, pending, gsc_data, crawl_data, pagespeed_data,
                   schema_data, issues, store_outcome, scorer_args, scorer_ret>>

NextSummary == GenerateSummary \/ GenerateSummaryAgain

SpecSummary == InitSummary /\ [][NextSummary]_vars

\* _analyze_issues called on any list of crawl records, without search or schema data
InitAnalysis ==
    /\ pc = "analyze"
    /\ config = [gsc |-> FALSE, storage |-> FALSE]
    /\ site \in {Site(CleanHome, CleanProduct, CleanBlog, <<>>)}
    /\ urls_to_audit = <<>>
    /\ pending = {}
    /\ crawl_failed = {}
    /\ \/ /\ crawl_data \in SeqsUpTo(AnalysisRecords, MaxCrawl)
          /\ gsc_data = <<>>
       \/ /\ crawl_data = <<>>
          /\ gsc_data \in GscDataInputs
    /\ pagespeed_data = <<>>
    /\ schema_data = <<>>
    /\ issues = <<>>
    /\ summary = EmptyDict
    /\ store_outcome = "none"
    /\ scorer_args = <<>>
    /\ scorer_ret = <<>>

NextAnalysis == AnalyzeIssues

SpecAnalysis == InitAnalysis /\ [][NextAnalysis]_vars

\* _analyze_issues and _generate_audit_summary called on crawl records that came in
\* any order, without search or schema data
InitCrossPage ==
    /\ pc = "analyze"
    /\ config = [gsc |-> FALSE, storage |-> FALSE]
    /\ site \in {Site(CleanHome, CleanProduct, CleanBlog, <<>>)}
    /\ urls_to_audit = <<>>
    /\ pending = {}
    /\ crawl_failed = {}
    /\ gsc_data = <<>>
    /\ crawl_data \in SeqsUpTo(SharedTextRecords, MaxShared)
    /\ pagespeed_data = <<>>
    /\ schema_data = <<>>
    /\ issues = <<>>
    /\ summary = EmptyDict
    /\ store_outcome = "none"
    /\ scorer_args = <<>>
    /\ scorer_ret = <<>>

NextCrossPage == AnalyzeIssues \/ GenerateSummary

SpecCrossPage == InitCrossPage /\ [][NextCrossPage]_vars

\* _categorize_issues_by_team called on a list of one issue, of any type
InitRouter ==
    /\ pc = "router"
    /\ config = [gsc |-> FALSE, storage |-> FALSE]
    /\ site \in {Site(CleanHome, CleanProduct, CleanBlog, <<>>)}
    /\ urls_to_audit = <<>>
    /\ pending = {}
    /\ crawl_failed = {}
    /\ gsc_data = <<>>
    /\ crawl_data = <<>>
    /\ pagespeed_data = <<>>
    /\ schema_data = <<>>
    /\ issues \in {<<[url |-> UrlHome, issue_type |-> issue_type, severity |-> "High",
                      category |-> "Content", status |-> "New", impact_score |-> 50]>> :
                        issue_type \in RoutedTypes}
    /\ summary = EmptyDict
    /\ store_outcome = "none"
    /\ scorer_args = <<>>
    /\ scorer_ret = <<>>

RouterCall ==
    /\ pc = "router"
    /\ scorer_ret = <<>>
    /\ scorer_ret' = << categorize_issues_by_team(issues) >>
    /\ UNCHANGED <<crawl_failed, pc, config, site, urls_to_audit, pending, gsc_data, crawl_data,
                   pagespeed_data, schema_data, issues, summary, store_outcome, scorer_args>>

NextRouter == RouterCall

SpecRouter == InitRouter /\ [][NextRouter]_vars

\* get_strategic_impact_score called on any issue type and URL
InitScorer ==
    /\ pc = "scorer"
    /\ config = [gsc |-> FALSE, storage |-> FALSE]
    /\ site \in {Site(CleanHome, CleanProduct, CleanBlog, <<>>)}
    /\ urls_to_audit = <<>>
    /\ pending = {}
    /\ crawl_failed = {}
    /\ gsc_data = <<>>
    /\ crawl_data = <<>>
    /\ pagespeed_data = <<>>
    /\ schema_data = <<>>
    /\ issues = <<>>
    /\ summary = EmptyDict
    /\ store_outcome = "none"
    /\ scorer_args \in IssueTypeInputs \X UrlInputs
    /\ scorer_ret = <<>>

ScorerCall ==
    /\ pc = "scorer"
    /\ scorer_ret = <<>>
    /\ scorer_ret' = << get_strategic_impact_score(scorer_args[1], scorer_args[2]) >>
    /\ UNCHANGED <<crawl_failed, pc, config, site, urls_to_audit, pending, gsc_data, crawl_data,
                   pagespeed_data, schema_data, issues, summary, store_outcome, scorer_args>>

NextScorer == ScorerCall

SpecScorer == InitScorer /\ [][NextScorer]_vars

\* classify_page_type called on any URL
InitClassifier ==
    /\ pc = "classifier"
    /\ config = [gsc |-> FALSE, storage |-> FALSE]
    /\ site \in {Site(CleanHome, CleanProduct, CleanBlog, <<>>)}
    /\ urls_to_audit = <<>>
    /\ pending = {}
    /\ crawl_failed = {}
    /\ gsc_data = <<>>
    /\ crawl_data = <<>>
    /\ pagespeed_data = <<>>
    /\ schema_data = <<>>
    /\ issues = <<>>
    /\ summary = EmptyDict
    /\ store_outcome = "none"
    /\ scorer_args \in {<<url>> : url \in UrlInputs}
    /\ scorer_ret = <<>>

ClassifierCall ==
    /\ pc = "classifier"
    /\ scorer_ret = <<>>
    /\ scorer_ret' = << classify_page_type(scorer_args[1]) >>
    /\ UNCHANGED <<crawl_failed, pc, config, site, urls_to_audit, pending, gsc_data, crawl_data,
                   pagespeed_data, schema_data, issues, summary, store_outcome, scorer_args>>

NextClassifier == ClassifierCall

SpecClassifier == InitClassifier /\ [][NextClassifier]_vars

\* The scorer called directly, or inside an audit run
SpecScoring == (Init \/ InitScorer) /\ [][Next \/ NextScorer]_vars

\* ------------------------------------------------------------------------
\* Properties
\* ------------------------------------------------------------------------
Range(seq) == {seq[i] : i \in 1..Len(seq)}

\* Sum of f[x] over x in S
RECURSIVE SetSum(_, _)
SetSum(S, f) ==
    IF S = {} THEN 0
    ELSE LET x == CHOOSE y \in S : TRUE IN f[x] + SetSum(S \ {x}, f)

ScorerReturned == pc = "scorer" /\ scorer_ret # <<>>
SummaryDone == pc \in {"store", "done", "resummarized"}
IssuesDone == pc \in {"summary", "store", "done"}

\* base * weight of a scorer call, weight in tenths: base * weight / 2.5 is this over 25
ScaledImpact(issue_type, url) ==
    (IF issue_type \in DOMAIN issue_severity THEN issue_severity[issue_type] ELSE 50)
    * (IF classify_page_type(url) \in DOMAIN page_weights
       THEN page_weights[classify_page_type(url)] ELSE 20)

\* C1 as stated: the score is min(100, round(base * weight / 2.5)), the rounded and not
\* the truncated value: below the cap it lies within one half of base * weight / 2.5.
C1_ScoreIsRounded ==
    ScorerReturned =>
        LET x == ScaledImpact(scorer_args[1], scorer_args[2])
            r == scorer_ret[1]
        IN IF 2 * x >= 2 * 100 * 25 - 25 THEN r = 100
           ELSE 2 * (x - 25 * r) <= 25 /\ 2 * (25 * r - x) <= 25

\* C1 amended: the score is min(100, int(base * weight / 2.5)), the quotient truncated:
\* below the cap it is the largest integer not above base * weight / 2.5.
C1_ScoreIsTruncated ==
    ScorerReturned =>
        LET x == ScaledImpact(scorer_args[1], scorer_args[2])
            r == scorer_ret[1]
        IN IF x >= 100 * 25 THEN r = 100
           ELSE 25 * r <= x /\ x < 25 * (r + 1)

\* A call whose exact quotient 57.6 rounds to 58 and truncates to 57
C1_Witness ==
    /\ ScorerReturned
    /\ scorer_args = <<"Excessive External Links", "https://x.com/cart/">>
    /\ scorer_ret = <<57>>

\* C2: get_strategic_impact_score returns an integer in [0,100] for every issue type and
\* URL, with or without table entries, and every issue of _analyze_issues carries an
\* impact_score in [0,100].
C2_ScoreBounded ==
    /\ scorer_ret # <<>> => scorer_ret[1] \in 0..100
    /\ \A i \in 1..Len(issues) : issues[i].impact_score \in 0..100

\* An issue type without severity entry has been scored (base 50 on weight 2.0)
C2_Witness ==
    /\ ScorerReturned
    /\ scorer_args[1] \notin DOMAIN issue_severity
    /\ scorer_ret = <<40>>

\* Occurrences of x in seq
Occurrences(seq, x) == Cardinality({i \in 1..Len(seq) : seq[i] = x})

TeamNames == {"tech_team", "marketing_team", "design_team"}

\* C3: after _categorize_issues_by_team every input issue is in the issues list of
\* exactly one bucket, an issue whose type matches no bucket is in tech_team, and the
\* bucket totals sum to len(issues).
C3_ExactlyOneBucket ==
    SummaryDone =>
        LET buckets == summary.team_breakdown
        IN /\ DOMAIN buckets = TeamNames
           /\ \A x \in Range(issues) :
                 /\ Cardinality({team \in TeamNames : x \in Range(buckets[team].issues)}) = 1
                 /\ \E team \in TeamNames :
                        Occurrences(buckets[team].issues, x) = Occurrences(issues, x)
                 /\ (\A team \in TeamNames : ~team_matches(team, x.issue_type))
                        => x \in Range(buckets["tech_team"].issues)
           /\ \A team \in TeamNames : Range(buckets[team].issues) \subseteq Range(issues)
           /\ buckets["tech_team"].total_issues + buckets["marketing_team"].total_issues
                + buckets["design_team"].total_issues = Len(issues)

\* Routed: one issue that matches no team, one that a team owns
C3_Witness ==
    /\ pc = "store"
    /\ \E x \in Range(issues) : \A team \in TeamNames : ~team_matches(team, x.issue_type)
    /\ summary.team_breakdown["design_team"].total_issues = 1
    /\ summary.team_breakdown["tech_team"].total_issues = 1

IssueUrls == {issues[i].url : i \in 1..Len(issues)}

\* Sum over URLs having issues of page_weight(url) * (sum of that URL's impact scores)
TotalWeightedImpact ==
    LET ImpactAt == [i \in 1..Len(issues) |-> issues[i].impact_score]
        PageImpact ==
            [url \in IssueUrls |->
                page_weight(url) * SetSum({i \in 1..Len(issues) : issues[i].url = url}, ImpactAt)]
    IN SetSum(IssueUrls, PageImpact)

\* Sum of page_weight over URLs having issues, plus page_weight(url) for every crawl
\* record whose URL has no issue
TotalWeight ==
    LET CleanWeightAt == [k \in 1..Len(crawl_data) |-> page_weight(crawl_data[k].url)]
    IN SetSum(IssueUrls, [url \in IssueUrls |-> page_weight(url)])
       + SetSum({k \in 1..Len(crawl_data) : crawl_data[k].url \notin IssueUrls}, CleanWeightAt)

\* C4: with positive total weight, seo_score = max(0, 100 - (total_weighted_impact /
\* total_weight) / 50) for the two totals as the claim defines them.
C4_SeoScoreFormula ==
    (SummaryDone /\ TotalWeight > 0) =>
        summary.seo_score
            = Frac(Max(0, 100 * 50 * TotalWeight - TotalWeightedImpact), 50 * TotalWeight)

\* Summarised: an issue on a URL that was not crawled, and a crawled page without issues
C4_Witness ==
    /\ pc = "store"
    /\ \E x \in Range(issues) : x.url \notin {crawl_data[k].url : k \in 1..Len(crawl_data)}
    /\ \E k \in 1..Len(crawl_data) : crawl_data[k].url \notin IssueUrls
    /\ TotalWeightedImpact > 0

\* ---- C5 ----
GscUrls == UNION {{gsc_data[d].rows[k].url : k \in 1..Len(gsc_data[d].rows)} :
                     d \in 1..Len(gsc_data)}

\* C5 as stated: every issue returned by _analyze_issues, from any pass, has a url
\* that is one of urls_to_audit.
C5_EveryIssueUrlAudited ==
    IssuesDone => \A i \in 1..Len(issues) : issues[i].url \in Range(urls_to_audit)

\* C5: every issue of the per-page, cross-page and structured-data passes has a url
\* that is one of urls_to_audit; an issue of the search-performance pass (category
\* 'GSC Performance') has the url of a row of gsc_data, audited or not.
C5_IssueUrlAuditedOrReported ==
    IssuesDone =>
        \A i \in 1..Len(issues) :
            IF issues[i].category = "GSC Performance"
            THEN issues[i].url \in GscUrls
            ELSE issues[i].url \in Range(urls_to_audit)

C5_Witness ==
    /\ pc = "done"
    /\ \E i \in 1..Len(issues) :
          issues[i].category = "GSC Performance" /\ issues[i].url \notin Range(urls_to_audit)
    /\ \E i \in 1..Len(issues) :
          issues[i].category # "GSC Performance" /\ issues[i].url \in Range(urls_to_audit)

\* ---- C6 ----
\* C6 as stated: a run that ends with zero crawl records has seo_score == 100 and
\* total_issues == 0, whatever its structured-data and search-performance inputs.
C6_ZeroCrawlAlwaysPerfect ==
    (SummaryDone /\ crawl_data = <<>>) =>
        summary.seo_score = Frac(100, 1) /\ summary.total_issues = 0

SchemaIssueTypes ==
    {"Missing Structured Data", "Missing Product Schema", "Missing Organization Schema"}

\* C6: a run that ends with zero crawl records has no issue of the per-page and
\* cross-page passes; its summary has seo_score == 100 and total_issues == 0 exactly
\* when the structured-data and search-performance passes emit no issue, and
\* total_issues > 0 with seo_score < 100 when they emit one.
C6_ZeroCrawlPerfectUnlessOtherPasses ==
    (SummaryDone /\ crawl_data = <<>>) =>
        /\ \A i \in 1..Len(issues) :
              \/ issues[i].issue_type \in SchemaIssueTypes
              \/ issues[i].category = "GSC Performance"
        /\ summary.total_issues = Len(issues)
        /\ issues = <<>> => summary.seo_score = Frac(100, 1)
        /\ issues # <<>> => summary.seo_score.num < 100 * summary.seo_score.den

C6_Witness ==
    /\ pc = "done"
    /\ urls_to_audit # <<>>
    /\ crawl_data = <<>>
    /\ \E k \in 1..Len(schema_data) : schema_data[k].error = <<>>
    /\ \E d \in 1..Len(gsc_data) : gsc_data[d].rows # <<>>
    /\ summary.total_issues = 0
    /\ summary.seo_score = Frac(100, 1)

\* ---- C7 ----
\* C7: with no crawl record, no structured-data record and no search-performance
\* record, the analysis returns no issue and the summary has seo_score = 100, every
\* severity count 0, avg_response_time 0, error_pages 0, and in each team bucket
\* total_issues = 0, avg_impact = 0 and priority_score = 0.
C7_EmptyInputSummary ==
    (/\ SummaryDone
     /\ crawl_data = <<>>
     /\ schema_data = <<>>
     /\ \A d \in 1..Len(gsc_data) : gsc_data[d].rows = <<>>) =>
        /\ issues = <<>>
        /\ summary.seo_score = Frac(100, 1)
        /\ summary.total_issues = 0
        /\ summary.critical_issues = 0
        /\ summary.high_issues = 0
        /\ summary.medium_issues = 0
        /\ summary.low_issues = 0
        /\ summary.avg_response_time = Frac(0, 1)
        /\ summary.error_pages = 0
        /\ \A team \in TeamNames :
              /\ summary.team_breakdown[team].total_issues = 0
              /\ summary.team_breakdown[team].avg_impact = Frac(0, 1)
              /\ summary.team_breakdown[team].priority_score = 0

C7_Witness ==
    /\ pc = "done"
    /\ urls_to_audit = <<>>
    /\ Len(gsc_data) = 1
    /\ gsc_data[1].rows = <<>>
    /\ schema_data = <<>>
    /\ crawl_data = <<>>
    /\ summary.seo_score = Frac(100, 1)

HasIssue(url, issue_type) ==
    \E k \in 1..Len(issues) : issues[k].url = url /\ issues[k].issue_type = issue_type

\* Records i and j are two records, of different URLs, with the same title
SameTitle(i, j) ==
    /\ i # j
    /\ crawl_data[i].url # crawl_data[j].url
    /\ crawl_data[i].title = crawl_data[j].title

SameMeta(i, j) ==
    /\ i # j
    /\ crawl_data[i].url # crawl_data[j].url
    /\ crawl_data[i].meta_description = crawl_data[j].meta_description

C10_ThresholdInclusive ==
    IssuesDone =>
        \A i, j \in 1..Len(crawl_data) :
            /\ (SameTitle(i, j) /\ crawl_data[i].title # "") =>
                  IF Len(Text[crawl_data[i].title]) >= 10
                  THEN HasIssue(crawl_data[i].url, "Duplicate Title Tags")
                  ELSE ~HasIssue(crawl_data[i].url, "Duplicate Title Tags")
            /\ (SameMeta(i, j) /\ crawl_data[i].meta_description # "") =>
                  IF Len(Text[crawl_data[i].meta_description]) >= 20
                  THEN HasIssue(crawl_data[i].url, "Duplicate Meta Descriptions")
                  ELSE ~HasIssue(crawl_data[i].url, "Duplicate Meta Descriptions")

\* C10: a title shared by two URLs is flagged 'Duplicate Title Tags' on both when it
\* has more than 10 characters and on none when it has 10 or fewer; a meta
\* description shared by two URLs is flagged 'Duplicate Meta Descriptions' on both
\* when it has more than 20 characters and on none when it has 20 or fewer.
C10_ThresholdExclusive ==
    IssuesDone =>
        \A i, j \in 1..Len(crawl_data) :
            /\ (SameTitle(i, j) /\ crawl_data[i].title # "") =>
                  IF Len(Text[crawl_data[i].title]) > 10
                  THEN HasIssue(crawl_data[i].url, "Duplicate Title Tags")
                  ELSE ~HasIssue(crawl_data[i].url, "Duplicate Title Tags")
            /\ (SameMeta(i, j) /\ crawl_data[i].meta_description # "") =>
                  IF Len(Text[crawl_data[i].meta_description]) > 20
                  THEN HasIssue(crawl_data[i].url, "Duplicate Meta Descriptions")
                  ELSE ~HasIssue(crawl_data[i].url, "Duplicate Meta Descriptions")

C10_Witness ==
    /\ pc = "done"
    /\ Len(crawl_data) = 2
    /\ SameTitle(1, 2)
    /\ SameMeta(1, 2)
    /\ Len(Text[crawl_data[1].title]) = 10
    /\ Len(Text[crawl_data[1].meta_description]) = 20
    /\ ~HasIssue(crawl_data[1].url, "Duplicate Title Tags")
    /\ ~HasIssue(crawl_data[2].url, "Duplicate Meta Descriptions")

\* ---- C11 ----
\* The search-performance records of gsc_data as (domain index, row index) pairs
GscRecords ==
    UNION {{<<d, k>> : k \in 1..Len(gsc_data[d].rows)} : d \in 1..Len(gsc_data)}

CrossReferenceType == "High Traffic Page with Technical Issues"

\* Issues of the per-page, cross-page and structured-data passes attached to url
HasNonGscIssue(url) ==
    \E k \in 1..Len(issues) : issues[k].url = url /\ issues[k].category # "GSC Performance"

\* C11: for each search-performance record one 'High Traffic Page with Technical
\* Issues' issue, of severity Critical, is emitted for its URL if and only if
\* impressions > 1000 and the issue list holds an issue for that URL whose category is
\* not 'GSC Performance', whichever of the per-page, cross-page and structured-data
\* passes emitted it: per URL, as many such issues as there are such records.
C11_CrossReference ==
    IssuesDone =>
        /\ \A url \in GscUrls \cup IssueUrls :
              Cardinality({k \in 1..Len(issues) :
                              issues[k].url = url /\ issues[k].issue_type = CrossReferenceType})
                  = Cardinality({r \in GscRecords :
                                    /\ gsc_data[r[1]].rows[r[2]].url = url
                                    /\ gsc_data[r[1]].rows[r[2]].impressions > 1000
                                    /\ HasNonGscIssue(url)})
        /\ \A k \in 1..Len(issues) :
              issues[k].issue_type = CrossReferenceType => issues[k].severity = "Critical"

\* A cross-reference issue on a page whose only other findings come from the
\* cross-page pass
C11_Witness ==
    /\ pc = "done"
    /\ \E url \in GscUrls :
          /\ HasIssue(url, CrossReferenceType)
          /\ HasIssue(url, "Duplicate Title Tags")
          /\ \A k \in 1..Len(issues) :
                (issues[k].url = url /\ issues[k].category # "GSC Performance")
                    => issues[k].issue_type = "Duplicate Title Tags"

\* ---- C12 ----
\* C12: every issue_type that _analyze_issues emits, in any of its four passes, is a
\* key of issue_severity, and the impact score of every emitted issue is computed
\* from the table's entry for its type, never from the default base of 50.
C12_EmittedTypesInSeverityTable ==
    IssuesDone =>
        \A k \in 1..Len(issues) :
            /\ issues[k].issue_type \in DOMAIN issue_severity
            /\ issues[k].impact_score
                   = Min(100, (issue_severity[issues[k].issue_type]
                               * page_weight(issues[k].url)) \div 25)

\* One run with an issue of each pass: per-page, cross-page, structured-data, GSC
C12_Witness ==
    /\ pc = "done"
    /\ \E k \in 1..Len(issues) : issues[k].issue_type = "Slow Response Time"
    /\ \E k \in 1..Len(issues) : issues[k].issue_type = "Duplicate Meta Descriptions"
    /\ \E k \in 1..Len(issues) : issues[k].issue_type \in SchemaIssueTypes
    /\ \E k \in 1..Len(issues) : issues[k].category = "GSC Performance"

\* ---- C13 ----
\* C13: the impact score is monotonic in page weight: a call for issue_type and a URL
\* u1 returns at least the score of the same issue_type on every URL u2 whose page
\* weight is not larger, and at most the score on every URL whose page weight is not
\* smaller; a homepage URL never scores below an 'other' URL.
C13_MonotonicInPageWeight ==
    ScorerReturned =>
        \A u2 \in UrlInputs :
            LET issue_type == scorer_args[1]
                w1 == page_weight_of(classify_page_type(scorer_args[2]))
                w2 == page_weight_of(classify_page_type(u2))
                s2 == get_strategic_impact_score(issue_type, u2)
            IN /\ w1 >= w2 => scorer_ret[1] >= s2
               /\ w1 <= w2 => scorer_ret[1] <= s2
               /\ (classify_page_type(scorer_args[2]) = "homepage"
                      /\ classify_page_type(u2) = "other") => scorer_ret[1] >= s2

\* A homepage call that scores strictly above an 'other' URL for the same issue type
C13_Witness ==
    /\ ScorerReturned
    /\ classify_page_type(scorer_args[2]) = "homepage"
    /\ \E u2 \in UrlInputs :
          /\ classify_page_type(u2) = "other"
          /\ scorer_ret[1] > get_strategic_impact_score(scorer_args[1], u2)

ClassifierReturned == pc = "classifier" /\ scorer_ret # <<>>

\* The rules in the order the claim gives them, each with its keywords
RuleOrder ==
    << [type |-> "homepage", keywords |-> {"/", "/home", "/index"}],
       [type |-> "product",
        keywords |-> {"/product", "/p/", "photo-blankets", "photo-books", "photo-mugs"}],
       [type |-> "category",
        keywords |-> {"/category", "/c/", "/canvas-prints", "/photo-calendars"}],
       [type |-> "checkout", keywords |-> {"/checkout", "/cart", "/basket"}],
       [type |-> "about", keywords |-> {"/about", "/company"}],
       [type |-> "contact", keywords |-> {"/contact", "/support"}],
       [type |-> "blog", keywords |-> {"/blog", "/news"}] >>

\* Rule i matches the lower-cased URL; the homepage rule also bounds the slashes
RuleMatches(i, url_lower) ==
    /\ \E keyword \in RuleOrder[i].keywords : Contains(url_lower, Text[keyword])
    /\ i = 1 => Count(url_lower, "/") <= 3

MatchingRules(url) == {i \in 1..Len(RuleOrder) : RuleMatches(i, Lower(Text[url]))}

\* C15: classify_page_type returns the type of the first rule, in the order homepage,
\* product, category, checkout, about, contact, blog, that matches the URL, and
\* 'other' when none does; the same URL classified again gets the same type.
C15_FirstMatchingRuleWins ==
    ClassifierReturned =>
        LET matching == MatchingRules(scorer_args[1])
        IN /\ matching = {} => scorer_ret[1] = "other"
           /\ matching # {} =>
                 scorer_ret[1]
                     = RuleOrder[CHOOSE i \in matching : \A j \in matching : i <= j].type
           /\ scorer_ret[1] = classify_page_type(scorer_args[1])

\* A URL that three keyword rules match is given the type of the earliest of them
C15_Witness ==
    /\ ClassifierReturned
    /\ MatchingRules(scorer_args[1]) = {4, 5, 7}
    /\ scorer_ret[1] = "checkout"

\* ---- C16 ----
\* Position of the first "://" of s, 0 when there is none
RECURSIVE SchemeMark(_, _)
SchemeMark(s, i) ==
    IF i + 2 > Len(s) THEN 0
    ELSE IF SubSeq(s, i, i + 2) = Text["://"] THEN i
    ELSE SchemeMark(s, i + 1)

\* Position of the first "/" of s at or after i, Len(s) + 1 when there is none
RECURSIVE NextSlash(_, _)
NextSlash(s, i) ==
    IF i > Len(s) THEN Len(s) + 1
    ELSE IF s[i] = "/" THEN i
    ELSE NextSlash(s, i + 1)

HasScheme(url) == SchemeMark(Text[url], 1) > 0

\* The path of scheme://host/path, lower-cased
LowerPathOf(url) ==
    LET s == Text[url]
        host == SchemeMark(s, 1) + 3
    IN Lower(SubSeq(s, NextSlash(s, host), Len(s)))

\* C16 as stated: classify_page_type depends only on the lower-cased path: two URLs
\* with the same path and a different scheme or host get the same page type.
C16_TypeDependsOnPathOnly ==
    (ClassifierReturned /\ HasScheme(scorer_args[1])) =>
        \A u2 \in UrlInputs :
            (HasScheme(u2) /\ LowerPathOf(u2) = LowerPathOf(scorer_args[1]))
                => classify_page_type(u2) = scorer_ret[1]

\* The keyword of the blog rule occurs in the host only, and decides the type
C16_Witness ==
    /\ ClassifierReturned
    /\ scorer_args[1] = "https://blog.com/a/b"
    /\ LowerPathOf(scorer_args[1]) = LowerPathOf("https://x.com/a/b")
    /\ scorer_ret[1] = "blog"
    /\ classify_page_type("https://x.com/a/b") = "other"

\* ---- C17 ----
CrawlDone == pc \in {"schema", "analyze", "summary", "store", "done"}

\* Futures whose fetch returned a record
Fetched == (1..Len(urls_to_audit)) \ (pending \cup crawl_failed)

\* Issue k comes from a crawl record: the per-page or the cross-page pass
FromCrawlRecord(k) ==
    /\ issues[k].category # "GSC Performance"
    /\ issues[k].issue_type \notin SchemaIssueTypes

\* Steps of run_comprehensive_audit in program order
Stage ==
    CASE pc = "gsc" -> 0
      [] pc = "crawl" -> 1
      [] pc = "schema" -> 2
      [] pc = "analyze" -> 3
      [] pc = "summary" -> 4
      [] pc = "store" -> 5
      [] pc = "done" -> 6
      [] OTHER -> -1

\* How far the run has come: its step, and within the crawl the futures completed
RunProgress ==
    Stage * (Len(urls_to_audit) + 1) + (Len(urls_to_audit) - Cardinality(pending))

\* C17: under every order of fetch completions a failed fetch does not end the batch:
\* crawl_data holds one record per successful fetch and none for a failed one, no
\* issue of the crawl rules is emitted for a URL none of whose fetches succeeded, and
\* the run reaches issue analysis and returns: before the analysis a next step is
\* always possible, whatever fetches failed, and every step brings the run further.
C17_PartialFailureTolerated ==
    /\ [](pc # "gsc" =>
             /\ Len(crawl_data) = Cardinality(Fetched)
             /\ \A url \in Range(urls_to_audit) :
                   Cardinality({k \in 1..Len(crawl_data) : crawl_data[k].url = url})
                       = Cardinality({i \in Fetched : urls_to_audit[i] = url})
             /\ IssuesDone =>
                   \A k \in 1..Len(issues) :
                       FromCrawlRecord(k) => \E i \in Fetched : urls_to_audit[i] = issues[k].url)
    /\ [](pc \in {"gsc", "crawl", "schema"} => ENABLED Next)
    /\ [][RunProgress' > RunProgress]_vars

\* A run that returned after one fetch failed and another found a page with issues
C17_Witness ==
    /\ pc = "done"
    /\ crawl_failed # {}
    /\ Len(crawl_data) = 1
    /\ \E k \in 1..Len(issues) : FromCrawlRecord(k)
    /\ urls_to_audit[1] # urls_to_audit[2]

\* C18: a failure inside _store_audit_results, whether no storage is configured or the
\* write raises, is caught: the store step can always be taken, it ends with the run
\* returning audit_results, and 'issues' and 'summary' are what they were before it.
C18_StorageFailureCaught ==
    /\ [](pc = "store" => ENABLED StoreResults)
    /\ [][pc = "store" =>
              /\ pc' = "done"
              /\ issues' = issues
              /\ summary' = summary]_vars

\* A run that returned its issues after the write to the configured table raised
C18_Witness ==
    /\ pc = "done"
    /\ config.storage
    /\ store_outcome = "failed"
    /\ issues # <<>>
    /\ summary.total_issues = Len(issues)

\* The 'HTTP Error' issues reported for url with the given severity
HttpErrors(url, severity) ==
    {k \in 1..Len(issues) :
        /\ issues[k].issue_type = "HTTP Error"
        /\ issues[k].url = url
        /\ issues[k].severity = severity}

\* The crawl records of url with a status code from low to high
RecordsWithStatus(url, low, high) ==
    {k \in 1..Len(crawl_data) :
        /\ crawl_data[k].url = url
        /\ crawl_data[k].status_code \in low..high}

\* C19: each crawl record with status_code >= 400 yields exactly one 'HTTP Error'
\* issue and a record below 400 yields none: per URL there are as many Critical ones
\* as records with a status of 500 or more, as many High ones as records with a
\* status of 400 to 499, no others, and all of them are of category Crawlability.
C19_OneHttpErrorPerFailedRecord ==
    IssuesDone =>
        /\ \A url \in UrlInputs :
              /\ Cardinality(HttpErrors(url, "Critical"))
                    = Cardinality(RecordsWithStatus(url, 500, 999))
              /\ Cardinality(HttpErrors(url, "High"))
                    = Cardinality(RecordsWithStatus(url, 400, 499))
        /\ \A k \in 1..Len(issues) :
              issues[k].issue_type = "HTTP Error" =>
                  /\ issues[k].severity \in {"Critical", "High"}
                  /\ issues[k].category = "Crawlability"

\* The analysis of two records of one address, one with status 500 and one with 499
C19_Witness ==
    /\ IssuesDone
    /\ Len(crawl_data) = 2
    /\ crawl_data[1].url = crawl_data[2].url
    /\ crawl_data[1].status_code = 500
    /\ crawl_data[2].status_code = 499
    /\ Cardinality(HttpErrors(crawl_data[1].url, "Critical")) = 1
    /\ Cardinality(HttpErrors(crawl_data[1].url, "High")) = 1

\* The crawl records of the scenario: address 'https://x.com/' answered with status 503
HomeDown == {k \in 1..Len(crawl_data) :
                crawl_data[k].url = "https://x.com/" /\ crawl_data[k].status_code = 503}

\* C20: in a whole audit run a crawl record of 'https://x.com/' with status 503 is
\* classified as homepage and yields an 'HTTP Error' issue of severity Critical with
\* impact_score 100: base 90, weight 5.0, and 90 * 5.0 / 2.5 = 180 capped at 100.
C20_HomepageDownScenario ==
    IssuesDone /\ HomeDown # {} =>
        /\ classify_page_type("https://x.com/") = "homepage"
        /\ base_impact_of("HTTP Error") = 90
        /\ page_weight_of(classify_page_type("https://x.com/")) = 50
        /\ IntOf(90 * 50, 25) = 180
        /\ Cardinality({j \in 1..Len(issues) :
                           /\ issues[j].url = "https://x.com/"
                           /\ issues[j].issue_type = "HTTP Error"
                           /\ issues[j].severity = "Critical"
                           /\ issues[j].impact_score = 100}) = Cardinality(HomeDown)
        /\ \A j \in 1..Len(issues) :
              issues[j].url = "https://x.com/" /\ issues[j].issue_type = "HTTP Error" =>
                  issues[j].impact_score = 100

\* A finished audit run that fetched the home page and got status 503
C20_Witness ==
    /\ pc = "done"
    /\ HomeDown # {}
    /\ urls_to_audit # <<>>
    /\ \E j \in 1..Len(issues) :
          /\ issues[j].url = "https://x.com/"
          /\ issues[j].issue_type = "HTTP Error"
          /\ issues[j].impact_score = 100

\* The issues of one type reported for url
IssuesOfType(url, issue_type) ==
    {k \in 1..Len(issues) : issues[k].url = url /\ issues[k].issue_type = issue_type}

\* C21: the missing-title and the missing-description rule are independent: per URL
\* there are as many 'Missing Title Tag' issues as crawl records with an empty title
\* and as many 'Missing Meta Description' issues as records with an empty description
\* (so a record with both empty gets both and a record with a text gets none); the
\* former are of severity High, the latter of severity Medium.
C21_MissingTitleAndMetaIndependent ==
    IssuesDone =>
        /\ \A url \in UrlInputs :
              /\ Cardinality(IssuesOfType(url, "Missing Title Tag"))
                    = Cardinality({k \in 1..Len(crawl_data) :
                                      crawl_data[k].url = url /\ Text[crawl_data[k].title] = <<>>})
              /\ Cardinality(IssuesOfType(url, "Missing Meta Description"))
                    = Cardinality({k \in 1..Len(crawl_data) :
                                      /\ crawl_data[k].url = url
                                      /\ Text[crawl_data[k].meta_description] = <<>>})
        /\ \A k \in 1..Len(issues) :
              /\ issues[k].issue_type = "Missing Title Tag" => issues[k].severity = "High"
              /\ issues[k].issue_type = "Missing Meta Description" =>
                    issues[k].severity = "Medium"

\* The analysis of one record without title and description, and of nothing else
C21_Witness ==
    /\ IssuesDone
    /\ Len(crawl_data) = 1
    /\ crawl_data[1].title = ""
    /\ crawl_data[1].meta_description = ""
    /\ IssuesOfType(crawl_data[1].url, "Missing Title Tag") # {}
    /\ IssuesOfType(crawl_data[1].url, "Missing Meta Description") # {}

\* The search-performance records of url
GscRecordsOf(url) == {r \in GscRecords : gsc_data[r[1]].rows[r[2]].url = url}

\* The issues of one type and severity and of category 'GSC Performance' for url
GscIssues(url, issue_type, severity) ==
    {k \in IssuesOfType(url, issue_type) :
        issues[k].severity = severity /\ issues[k].category = "GSC Performance"}

GscThresholdTypes ==
    {"High Impressions Low CTR", "High Impressions Poor Position",
     "High Impressions Zero Clicks", "High Value Page Opportunity"}

\* C22: each of the four threshold rules fires for a search-performance record exactly
\* when its own predicate holds, whatever the other rules do: per URL there are as many
\* issues of each type, with the stated severity, as records that satisfy the type's
\* predicate, and none with another severity; without search-performance input the
\* analysis returns and reports no issue of category 'GSC Performance'.
C22_GscThresholdRules ==
    IssuesDone =>
        /\ \A url \in UrlInputs :
              /\ Cardinality(GscIssues(url, "High Impressions Low CTR", "High"))
                    = Cardinality({r \in GscRecordsOf(url) :
                                      /\ gsc_data[r[1]].rows[r[2]].impressions > 1000
                                      /\ gsc_data[r[1]].rows[r[2]].ctr < 200})
              /\ Cardinality(GscIssues(url, "High Impressions Poor Position", "Medium"))
                    = Cardinality({r \in GscRecordsOf(url) :
                                      /\ gsc_data[r[1]].rows[r[2]].impressions > 500
                                      /\ gsc_data[r[1]].rows[r[2]].position > 100})
              /\ Cardinality(GscIssues(url, "High Impressions Zero Clicks", "Critical"))
                    = Cardinality({r \in GscRecordsOf(url) :
                                      /\ gsc_data[r[1]].rows[r[2]].impressions > 1000
                                      /\ gsc_data[r[1]].rows[r[2]].clicks = 0})
              /\ Cardinality(GscIssues(url, "High Value Page Opportunity", "Medium"))
                    = Cardinality({r \in GscRecordsOf(url) :
                                      gsc_data[r[1]].rows[r[2]].impressions > 10000})
        /\ \A k \in 1..Len(issues) :
              issues[k].issue_type \in GscThresholdTypes =>
                  /\ issues[k].category = "GSC Performance"
                  /\ issues[k].severity =
                        (CASE issues[k].issue_type = "High Impressions Low CTR" -> "High"
                           [] issues[k].issue_type = "High Impressions Zero Clicks" -> "Critical"
                           [] OTHER -> "Medium")
        /\ GscRecords = {} =>
              \A k \in 1..Len(issues) : issues[k].category # "GSC Performance"

\* The analysis of one record on which the low-CTR and the zero-clicks rule both fire
\* and the two others do not
C22_Witness ==
    /\ IssuesDone
    /\ crawl_data = <<>>
    /\ Len(gsc_data) = 1
    /\ Len(gsc_data[1].rows) = 1
    /\ gsc_data[1].rows[1].impressions = 1001
    /\ gsc_data[1].rows[1].position = 100
    /\ {issues[k].issue_type : k \in 1..Len(issues)}
          = {"High Impressions Low CTR", "High Impressions Zero Clicks"}

\* The schema results of url that carry no error marker
SchemaResultsOf(url) ==
    {k \in 1..Len(schema_data) : schema_data[k].url = url /\ schema_data[k].error = <<>>}

\* C23: in the structured-data pass a result carrying an error marker produces no issue
\* at all, and a result without one produces Medium 'Missing Structured Data' when
\* json_ld_count is 0, High 'Missing Product Schema' when its URL is a product page and
\* 'Product' is not among its schema types, and Medium 'Missing Organization Schema'
\* when its URL is the homepage and 'Organization' is not among them: per URL, as many
\* issues of each type as results without error marker that satisfy its condition.
C23_ErrorMarkerSkipsSchemaRules ==
    IssuesDone =>
        /\ \A url \in AuditUrls :
              /\ Cardinality(IssuesOfType(url, "Missing Structured Data"))
                    = Cardinality({k \in SchemaResultsOf(url) :
                                      schema_data[k].json_ld_count = 0})
              /\ Cardinality(IssuesOfType(url, "Missing Product Schema"))
                    = Cardinality({k \in SchemaResultsOf(url) :
                                      /\ classify_page_type(url) = "product"
                                      /\ "Product" \notin schema_data[k].schema_types_found})
              /\ Cardinality(IssuesOfType(url, "Missing Organization Schema"))
                    = Cardinality({k \in SchemaResultsOf(url) :
                                      /\ classify_page_type(url) = "homepage"
                                      /\ "Organization" \notin schema_data[k].schema_types_found})
        /\ \A k \in 1..Len(issues) :
              /\ issues[k].issue_type \in {"Missing Structured Data",
                                            "Missing Organization Schema"} =>
                    issues[k].severity = "Medium"
              /\ issues[k].issue_type = "Missing Product Schema" => issues[k].severity = "High"

\* An audit of the product page alone whose schema fetch raised an exception with an
\* empty message: the result carries the error marker and the page is reported for
\* missing structured data and a missing Product schema
C23_Witness ==
    /\ pc = "done"
    /\ Len(schema_data) = 1
    /\ schema_data[1].error = <<"">>
    /\ classify_page_type(schema_data[1].url) = "product"
    /\ IssuesOfType(schema_data[1].url, "Missing Structured Data") # {}
    /\ IssuesOfType(schema_data[1].url, "Missing Product Schema") # {}

\* The part of C23 that holds: a result whose error text is not empty produces no
\* issue, and the three rules fire on every other result
C23_NonEmptyErrorSkipsSchemaRules ==
    IssuesDone =>
        \A url \in AuditUrls :
            LET checked == {k \in 1..Len(schema_data) :
                               schema_data[k].url = url /\ ~schema_error(schema_data[k])}
            IN /\ Cardinality(IssuesOfType(url, "Missing Structured Data"))
                     = Cardinality({k \in checked : schema_data[k].json_ld_count = 0})
               /\ Cardinality(IssuesOfType(url, "Missing Product Schema"))
                     = Cardinality({k \in checked :
                                       /\ classify_page_type(url) = "product"
                                       /\ "Product" \notin schema_data[k].schema_types_found})
               /\ Cardinality(IssuesOfType(url, "Missing Organization Schema"))
                     = Cardinality({k \in checked :
                                       /\ classify_page_type(url) = "homepage"
                                       /\ "Organization" \notin schema_data[k].schema_types_found})

\* The positions of the issue list that the router assigns to team
AssignedTo(team) == {k \in 1..Len(issues) : assigned_team(issues[k].issue_type) = team}

\* C24: in every bucket of _categorize_issues_by_team total_issues is the number of
\* issues assigned to it, critical_issues and high_issues count those of severity
\* Critical and High, avg_impact is the mean of their impact scores (0 for an empty
\* bucket), and priority_score = critical_issues * 10 + high_issues * 5 + total_issues.
C24_TeamMetrics ==
    SummaryDone =>
        \A team \in TeamNames :
            LET bucket == summary.team_breakdown[team]
                assigned == AssignedTo(team)
                impact_sum == SetSum(assigned, [k \in assigned |-> issues[k].impact_score])
            IN /\ bucket.total_issues = Cardinality(assigned)
               /\ bucket.critical_issues
                     = Cardinality({k \in assigned : issues[k].severity = "Critical"})
               /\ bucket.high_issues
                     = Cardinality({k \in assigned : issues[k].severity = "High"})
               /\ bucket.avg_impact.den > 0
               /\ bucket.avg_impact.num * Cardinality(assigned)
                     = impact_sum * bucket.avg_impact.den
               /\ assigned = {} => bucket.avg_impact = Frac(0, 1)
               /\ bucket.priority_score
                     = bucket.critical_issues * 10 + bucket.high_issues * 5
                       + bucket.total_issues

\* A summary with a critical issue in one bucket and a high issue in another
C24_Witness ==
    /\ SummaryDone
    /\ Len(issues) = 2
    /\ \E team \in TeamNames :
          /\ summary.team_breakdown[team].critical_issues = 1
          /\ summary.team_breakdown[team].priority_score = 11
    /\ \E team \in TeamNames :
          /\ summary.team_breakdown[team].high_issues = 1
          /\ summary.team_breakdown[team].priority_score = 6
          /\ summary.team_breakdown[team].avg_impact = Frac(68, 1)

\* crawl_data in another order of completion: record k is the one that was at order[k]
Reordered(order) == [k \in 1..Len(crawl_data) |-> crawl_data[order[k]]]

\* The issues _analyze_issues returns when the crawl records come in that order
IssuesInOrder(order) ==
    analyze_issues([audit_results EXCEPT !.crawl_data = Reordered(order)])

\* Two issue lists hold the same issues the same number of times
SameIssueBag(issues1, issues2) ==
    \A x \in Range(issues1) \cup Range(issues2) :
        Occurrences(issues1, x) = Occurrences(issues2, x)

\* C25: the outcome does not depend on the order in which the crawl fetches complete:
\* for the crawl records of a run, every ordering of crawl_data gives the same issues
\* the same number of times per URL, the duplicate title and description pass
\* included, and so the same seo_score and the same team metrics.
C25_CompletionOrderIrrelevant ==
    IssuesDone =>
        \A order \in Permutations(1..Len(crawl_data)) :
            /\ SameIssueBag(IssuesInOrder(order), issues)
            /\ audit_summary_of(IssuesInOrder(order), Reordered(order)).seo_score
                 = audit_summary_of(issues, crawl_data).seo_score
            /\ \A team \in TeamNames :
                  categorize_issues_by_team(IssuesInOrder(order))[team].priority_score
                    = categorize_issues_by_team(issues)[team].priority_score

\* Home, product and blog page share one title and completed in this order: the home
\* page is reported twice, and with the blog page first it would be reported once
C25_Witness ==
    /\ pc = "store"
    /\ Len(crawl_data) = 3
    /\ crawl_data[1].url = UrlHome
    /\ crawl_data[2].url = UrlProduct
    /\ crawl_data[3].url = UrlBlog
    /\ \A k \in 2..3 : crawl_data[k].title = crawl_data[1].title
    /\ Cardinality(IssuesOfType(UrlHome, "Duplicate Title Tags")) = 2
    /\ Cardinality(IssuesOfType(UrlBlog, "Duplicate Title Tags")) = 1
    /\ LET order == (1 :> 3) @@ (2 :> 2) @@ (3 :> 1)
       IN /\ Occurrences(IssuesInOrder(order),
                         TechnicalSEOIssue(UrlHome, "Duplicate Title Tags", "High", "Content")) = 1
          /\ audit_summary_of(IssuesInOrder(order), Reordered(order)).seo_score
               # summary.seo_score

\* The part of C25 that holds: the order is irrelevant when no title and no
\* description is shared by more than two crawl records
C25_OrderIrrelevantUpToPairs ==
    (/\ IssuesDone
     /\ \A k \in 1..Len(crawl_data) :
           /\ Cardinality({j \in 1..Len(crawl_data) :
                              crawl_data[j].title = crawl_data[k].title}) <= 2
           /\ Cardinality({j \in 1..Len(crawl_data) :
                              crawl_data[j].meta_description = crawl_data[k].meta_description}) <= 2) =>
        \A order \in Permutations(1..Len(crawl_data)) :
            SameIssueBag(IssuesInOrder(order), issues)

\* Every crawl record is of another URL
DistinctUrls ==
    \A i, j \in 1..Len(crawl_data) : crawl_data[i].url = crawl_data[j].url => i = j

\* The crawl records that share the title (the description) of record k
TitleGroup(k) == {j \in 1..Len(crawl_data) : crawl_data[j].title = crawl_data[k].title}
MetaGroup(k) ==
    {j \in 1..Len(crawl_data) : crawl_data[j].meta_description = crawl_data[k].meta_description}

\* C26: when k >= 2 crawl records of different URLs share a title (a description), no
\* URL receives more than one 'Duplicate Title Tags' ('Duplicate Meta Descriptions')
\* issue, and the k URLs of the group receive exactly k such issues.
C26_OneDuplicateIssuePerUrl ==
    IssuesDone /\ DistinctUrls =>
        /\ \A url \in AuditUrls :
              /\ Cardinality(IssuesOfType(url, "Duplicate Title Tags")) <= 1
              /\ Cardinality(IssuesOfType(url, "Duplicate Meta Descriptions")) <= 1
        /\ \A k \in 1..Len(crawl_data) :
              /\ (Cardinality(TitleGroup(k)) >= 2 /\ title_tracked(Text[crawl_data[k].title])) =>
                    Cardinality(UNION {IssuesOfType(crawl_data[j].url, "Duplicate Title Tags") :
                                          j \in TitleGroup(k)})
                        = Cardinality(TitleGroup(k))
              /\ (Cardinality(MetaGroup(k)) >= 2
                    /\ meta_tracked(Text[crawl_data[k].meta_description])) =>
                    Cardinality(UNION {IssuesOfType(crawl_data[j].url,
                                                    "Duplicate Meta Descriptions") :
                                          j \in MetaGroup(k)})
                        = Cardinality(MetaGroup(k))

\* Three records of different URLs share one title: four duplicate-title issues, two
\* of them for the URL that completed first
C26_Witness ==
    /\ IssuesDone
    /\ DistinctUrls
    /\ Len(crawl_data) = 3
    /\ Cardinality(TitleGroup(1)) = 3
    /\ Cardinality(IssuesOfType(crawl_data[1].url, "Duplicate Title Tags")) = 2
    /\ Cardinality({k \in 1..Len(issues) : issues[k].issue_type = "Duplicate Title Tags"}) = 4

\* The part of C26 that holds: a text shared by exactly two records of different URLs
\* gives each of the two URLs one duplicate issue
C26_OneDuplicateIssuePerPair ==
    IssuesDone /\ DistinctUrls =>
        \A k \in 1..Len(crawl_data) :
            /\ (Cardinality(TitleGroup(k)) = 2 /\ title_tracked(Text[crawl_data[k].title])) =>
                  \A j \in TitleGroup(k) :
                      Cardinality(IssuesOfType(crawl_data[j].url, "Duplicate Title Tags")) = 1
            /\ (Cardinality(MetaGroup(k)) = 2
                  /\ meta_tracked(Text[crawl_data[k].meta_description])) =>
                  \A j \in MetaGroup(k) :
                      Cardinality(IssuesOfType(crawl_data[j].url,
                                               "Duplicate Meta Descriptions")) = 1

\* a < b for two non-negative fractions, compared by integer part and remainder
FracLess(a, b) ==
    \/ a.num \div a.den < b.num \div b.den
    \/ /\ a.num \div a.den = b.num \div b.den
       /\ (a.num % a.den) * b.den < (b.num % b.den) * a.den

\* The seo_score of the same issues with one more crawl record
ScoreWithRecord(page_data) ==
    audit_summary_of(issues, Append(crawl_data, page_data)).seo_score

\* C27: clean pages only help the score: for any issue list and crawl-record list, one
\* more crawl record whose URL has no issue never lowers seo_score, and it raises the
\* score whenever the total weighted impact is positive and the score is above 0.
C27_CleanPageHelps ==
    SummaryDone =>
        \A page_data \in CrawlInputs :
            page_data.url \notin IssueUrls =>
                /\ ~FracLess(ScoreWithRecord(page_data), summary.seo_score)
                /\ (TotalWeightedImpact > 0 /\ summary.seo_score.num > 0) =>
                      FracLess(summary.seo_score, ScoreWithRecord(page_data))

\* A summary of issues and crawl records with a score between 0 and 100 that one more
\* clean page raises
C27_Witness ==
    /\ SummaryDone
    /\ crawl_data # <<>>
    /\ TotalWeightedImpact > 0
    /\ summary.seo_score.num > 0
    /\ \E page_data \in CrawlInputs :
          /\ page_data.url \notin IssueUrls
          /\ page_data.url \notin {crawl_data[k].url : k \in 1..Len(crawl_data)}
          /\ FracLess(summary.seo_score, ScoreWithRecord(page_data))

\* The issue types that _analyze_issues assigns in its four passes
EmittedTypes ==
    {"HTTP Error", "Slow Response Time", "Missing Title Tag", "Missing Meta Description",
     "Missing H1 Tag", "Multiple H1 Tags", "Images Without Alt Text", "Large Page Size",
     "Thin Content", "Short Title Tag", "Long Title Tag", "Generic Title Tag",
     "Short Meta Description", "Long Meta Description", "Missing Canonical Tag",
     "Invalid Canonical URL", "Blocked by Robots Meta", "Insufficient Internal Links",
     "Excessive External Links", "Duplicate Title Tags", "Duplicate Meta Descriptions",
     "Missing Structured Data", "Missing Product Schema", "Missing Organization Schema",
     "High Impressions Low CTR", "High Impressions Poor Position",
     "High Impressions Zero Clicks", "High Value Page Opportunity",
     "High Traffic Page with Technical Issues"}

\* Every issue of a run or of a direct analysis has one of these types
EmittedTypesCoverIssues ==
    IssuesDone => \A k \in 1..Len(issues) : issues[k].issue_type \in EmittedTypes

RouterReturned == pc = "router" /\ scorer_ret # <<>>

\* The teams whose issue_types list holds the type verbatim
VerbatimOwners(issue_type) ==
    {team \in TeamNames :
        \E i \in 1..Len(team_issue_types[team]) : team_issue_types[team][i] = issue_type}

\* C28: every issue type that _analyze_issues can emit is listed verbatim by exactly
\* one team, and the first-match routing (tech_team, marketing_team, design_team;
\* verbatim or keyword substring) puts an issue of that type into that team's bucket:
\* no substring match of an earlier team takes it away from its verbatim owner.
C28_VerbatimOwnerWins ==
    /\ EmittedTypes \subseteq RoutedTypes
    /\ (RouterReturned /\ issues[1].issue_type \in EmittedTypes) =>
          /\ Cardinality(VerbatimOwners(issues[1].issue_type)) = 1
          /\ \A team \in TeamNames :
                scorer_ret[1][team].issues
                  = IF team \in VerbatimOwners(issues[1].issue_type) THEN issues ELSE <<>>

\* An issue of a type the marketing team lists, routed past the tech team to marketing
C28_Witness ==
    /\ RouterReturned
    /\ issues[1].issue_type = "Missing Title Tag"
    /\ scorer_ret[1]["marketing_team"].issues = issues
    /\ scorer_ret[1]["tech_team"].total_issues = 0

\* The page types the claim lists as results of classify_page_type
ResultTypes ==
    {"homepage", "product", "category", "checkout", "about", "contact", "blog", "other"}

\* C29: classify_page_type never returns 'pricing', so the weight that page_weights
\* holds for 'pricing' is never the one looked up for a URL; its results are exactly
\* homepage, product, category, checkout, about, contact, blog and other, each of
\* which some URL gets.
C29_PricingNeverReturned ==
    /\ "pricing" \in DOMAIN page_weights
    /\ \A page_type \in ResultTypes : \E url \in UrlInputs : classify_page_type(url) = page_type
    /\ ClassifierReturned =>
          /\ scorer_ret[1] # "pricing"
          /\ scorer_ret[1] \in ResultTypes
          /\ page_weight(scorer_args[1]) = page_weights[scorer_ret[1]]

\* The classifier called on a pricing page: the page is of type other, with weight 2.0
C29_Witness ==
    /\ ClassifierReturned
    /\ scorer_args[1] = "https://x.com/pricing/"
    /\ scorer_ret[1] = "other"
    /\ page_weight(scorer_args[1]) = 20

\* C30: in every summary of a run the counts agree: critical_issues + high_issues
\* + medium_issues + low_issues = total_issues, the values of issue_categories sum to
\* total_issues, the totals of the three team buckets sum to total_issues, and
\* error_pages is the number of 'HTTP Error' issues.
C30_SummaryCountsConsistent ==
    SummaryDone =>
        /\ summary.total_issues = Len(issues)
        /\ summary.critical_issues + summary.high_issues + summary.medium_issues
             + summary.low_issues = summary.total_issues
        /\ SetSum(DOMAIN summary.issue_categories, summary.issue_categories)
             = summary.total_issues
        /\ SetSum(TeamNames, [team \in TeamNames |-> summary.team_breakdown[team].total_issues])
             = summary.total_issues
        /\ summary.error_pages
             = Cardinality({k \in 1..Len(issues) : issues[k].issue_type = "HTTP Error"})

\* A finished run with issues of all four severities, of several categories and of
\* every team, one of its two pages being an error page
C30_Witness ==
    /\ pc = "done"
    /\ summary.critical_issues > 0
    /\ summary.high_issues > 0
    /\ summary.medium_issues > 0
    /\ summary.low_issues > 0
    /\ Cardinality(DOMAIN summary.issue_categories) >= 3
    /\ \A team \in TeamNames : summary.team_breakdown[team].total_issues > 0
    /\ Len(crawl_data) = 2
    /\ summary.error_pages = 1

====
